---- MODULE Spec2Model ----
(***************************************************************************)
(* The shared-memory RPC engine of the Apple display coprocessor (DCP)     *)
(* driver, drivers/gpu/drm/apple/iomfb.c: channels with a call stack,      *)
(* dcp_push / dcpep_handle_cb / dcpep_handle_ack / dcp_ack, the callback   *)
(* table, the boot chain and the host entry points that push calls.        *)
(*                                                                         *)
(* The firmware is the environment: it may send INITIALIZED, callbacks and *)
(* acks in any order, on any context.  Pointers into the shared buffer are *)
(* byte offsets from its start (0 is NULL).                                *)
(*                                                                         *)
(* An access of callbacks[], cookies[], output[] or end[] at an index      *)
(* outside 0..7 is undefined behaviour in C.  The step that performs it    *)
(* takes its outcome from an oracle (the value an out-of-bounds read       *)
(* yields, whether an out-of-bounds write of end[] lands on the adjacent   *)
(* depth byte), sets ub, and the model does not follow the program any     *)
(* further.                                                                *)
(***************************************************************************)
EXTENDS Integers, Sequences, FiniteSets, TLC

VARIABLES
    ch,             \* the five struct dcp_channel of struct apple_dcp
    sent,           \* doorbells handed to dcp_send_message, oldest first
    shmem,          \* cells of the shared buffer the host has written
    active,         \* dcp->active
    main_display,   \* dcp->main_display
    invoked,        \* history: the continuations called, oldest first
    pushed,         \* history: how often each continuation was passed to dcp_push
    deferred,       \* history: the callbacks whose handler returned false
    ev,             \* history: the last input handled and the state before it
    ub,             \* history: the kinds of out-of-bounds access that happened
    nMsgs,          \* inputs handled so far: messages and host calls
    dev             \* the fields of struct apple_dcp the display path uses

vars == <<ch, sent, shmem, active, main_display, invoked, pushed, deferred, ev, ub,
          nMsgs, dev>>

---------------------------------------------------------------------------
(* Bounds of the model *)

MaxMsgs == 3
MaxDeep == 6
MaxBoot == 9

---------------------------------------------------------------------------
(* Program constants *)

DCP_MAX_CALL_DEPTH == 8
DCP_PACKET_ALIGNMENT == 64
DCPEP_MAX_CB == 1000
HeaderSize == 12
U8 == 256
U16 == 65536

DCP_CONTEXT_CB == 0
DCP_CONTEXT_CMD == 2
DCP_CONTEXT_ASYNC == 3
DCP_CONTEXT_OOBCB == 4
DCP_CONTEXT_OOBCMD == 6
EINVAL == 22
ENOMEM == 12

Slots == 0 .. (DCP_MAX_CALL_DEPTH - 1)

Channels == {"ch_cmd", "ch_oobcmd", "ch_cb", "ch_oobcb", "ch_async"}

(* ASCII '0' and 'D' *)
Chr0 == 48
ChrD == 68

---------------------------------------------------------------------------
(* The method table (tag[0..3] as ASCII codes, "A401" = 65 52 48 49) and the *)
(* thunks' argument sizes                                                  *)

dcp_methods ==
    [ dcpep_late_init_signal |-> <<65, 48, 48, 48>>,
      dcpep_setup_video_limits |-> <<65, 48, 50, 57>>,
      iomfbep_a131_pmu_service_matched |-> <<65, 49, 51, 49>>,
      iomfbep_a132_backlight_service_matched |-> <<65, 49, 51, 50>>,
      dcpep_set_create_dfb |-> <<65, 51, 53, 55>>,
      iomfbep_a358_vi_set_temperature_hint |-> <<65, 51, 53, 56>>,
      dcpep_start_signal |-> <<65, 52, 48, 49>>,
      dcpep_swap_start |-> <<65, 52, 48, 55>>,
      dcpep_swap_submit |-> <<65, 52, 48, 56>>,
      dcpep_set_digital_out_mode |-> <<65, 52, 49, 50>>,
      dcpep_set_display_device |-> <<65, 52, 49, 48>>,
      dcpep_is_main_display |-> <<65, 52, 49, 49>>,
      dcpep_set_parameter_dcp |-> <<65, 52, 51, 57>>,
      dcpep_create_default_fb |-> <<65, 52, 52, 51>>,
      dcpep_enable_disable_video_power_savings |-> <<65, 52, 52, 55>>,
      dcpep_first_client_open |-> <<65, 52, 53, 52>>,
      dcpep_set_display_refresh_properties |-> <<65, 52, 54, 48>>,
      dcpep_flush_supports_power |-> <<65, 52, 54, 51>>,
      dcpep_set_power_state |-> <<65, 52, 54, 56>> ]

\* <<sizeof input, sizeof output>> of each DCP_THUNK_ instance
ThunkLen ==
    [ dcpep_late_init_signal |-> <<0, 4>>,
      dcpep_setup_video_limits |-> <<0, 0>>,
      iomfbep_a131_pmu_service_matched |-> <<0, 4>>,
      iomfbep_a132_backlight_service_matched |-> <<0, 4>>,
      dcpep_set_create_dfb |-> <<0, 0>>,
      iomfbep_a358_vi_set_temperature_hint |-> <<0, 4>>,
      dcpep_start_signal |-> <<0, 4>>,
      dcpep_swap_start |-> <<24, 24>>,
      dcpep_swap_submit |-> <<2916, 8>>,
      dcpep_set_digital_out_mode |-> <<8, 4>>,
      dcpep_set_display_device |-> <<4, 4>>,
      dcpep_is_main_display |-> <<0, 4>>,
      dcpep_set_parameter_dcp |-> <<40, 4>>,
      dcpep_create_default_fb |-> <<0, 4>>,
      dcpep_enable_disable_video_power_savings |-> <<4, 4>>,
      dcpep_first_client_open |-> <<0, 0>>,
      dcpep_set_display_refresh_properties |-> <<0, 4>>,
      dcpep_flush_supports_power |-> <<4, 0>>,
      dcpep_set_power_state |-> <<12, 8>> ]

Methods == DOMAIN dcp_methods

(* The continuations (dcp_callback_t) of the driver; "NULL" is no continuation *)
Continuations ==
    { "dcp_started", "init_2", "init_3", "res_is_main_display",
      "boot_1_5", "boot_2", "boot_3", "boot_4", "boot_5", "boot_done",
      "complete_vi_set_temperature_hint", "complete_pmu_service_matched",
      "complete_backlight_service_matched",
      "dcp_on_final", "dcp_on_set_parameter",
      "dcp_c_started", "dcp_c_init_3", "dcp_c_init_done",
      "dcp_swap_started", "dcp_swapped", "complete_set_digital_out_mode",
      "dcp_swap_clear_started", "dcp_swap_cleared", "complete_set_powerstate" }

(* "record" is a caller's continuation that does nothing: the history       *)
(* variable invoked shows when it ran                                       *)
AllCallbacks == Continuations \cup {"NULL", "record"}

---------------------------------------------------------------------------
(* Offsets of the channels' zones in the shared buffer *)

dcp_tx_offset(id) ==
    IF id \in {DCP_CONTEXT_CB, DCP_CONTEXT_CMD} THEN 0
    ELSE IF id \in {DCP_CONTEXT_OOBCB, DCP_CONTEXT_OOBCMD} THEN 32768
    ELSE -EINVAL

dcp_channel_offset(id) ==
    IF id = DCP_CONTEXT_ASYNC THEN 262144
    ELSE IF id = DCP_CONTEXT_CB THEN 393216
    ELSE IF id = DCP_CONTEXT_OOBCB THEN 425984
    ELSE dcp_tx_offset(id)

ALIGN(x, a) == ((x + a - 1) \div a) * a

(* dcpep_msg / dcpep_ack: the fields of the 64-bit doorbell.  method is not *)
(* on the wire: it names the tag of the header the offset points at.        *)
dcpep_msg(id, length, offset, method) ==
    [ type |-> "MSG", context |-> id, offset |-> offset % U16,
      length |-> length, ack |-> FALSE, method |-> method ]

dcpep_ack(id) ==
    [ dcpep_msg(id, 0, 0, "none") EXCEPT !.ack = TRUE ]

---------------------------------------------------------------------------
(* Channels *)

dcp_channel_busy(c) == c.depth # 0

dcp_call_context(s, oob) ==
    LET depth == IF oob THEN s.ch["ch_oobcmd"].depth ELSE s.ch["ch_cmd"].depth
    IN  IF depth # 0
        THEN (IF oob THEN DCP_CONTEXT_OOBCB ELSE DCP_CONTEXT_CB)
        ELSE (IF oob THEN DCP_CONTEXT_OOBCMD ELSE DCP_CONTEXT_CMD)

dcp_get_channel(context) ==
    IF context = DCP_CONTEXT_CB THEN "ch_cb"
    ELSE IF context = DCP_CONTEXT_CMD THEN "ch_cmd"
    ELSE IF context = DCP_CONTEXT_OOBCB THEN "ch_oobcb"
    ELSE IF context = DCP_CONTEXT_OOBCMD THEN "ch_oobcmd"
    ELSE IF context = DCP_CONTEXT_ASYNC THEN "ch_async"
    ELSE "NULL"

\* u8 ret = depth++ : the value returned and the depth left behind
dcp_push_depth(depth) ==
    [ ret |-> depth, depth |-> (depth + 1) % U8 ]

(* A pop that leaves the depth where it is *)
dcp_pop_depth_stuck(depth) == depth

\* return --depth, in 8 bits
dcp_pop_depth(depth) == (depth - 1) % U8

(* ch->end[depth - 1], or 0; o.rend is what a read outside the array yields *)
dcp_packet_start(c, depth, o) ==
    IF depth > 0
    THEN (IF (depth - 1) \in Slots THEN c.end[depth - 1] ELSE o.rend)
    ELSE 0

EmptyChannel ==
    [ depth |-> 0,
      callbacks |-> [i \in Slots |-> "NULL"],
      cookies |-> [i \in Slots |-> 0],
      output |-> [i \in Slots |-> 0],
      end |-> [i \in Slots |-> 0] ]

(* History: where the packet of each slot of a channel starts, the length  *)
(* its doorbell tells, and whether the host pushed it                      *)
NoPackets == [ i \in Slots |-> [ start |-> 0, length |-> 0, host |-> FALSE ] ]

PacketAt(packets, depth, offset, length, host) ==
    [ packets EXCEPT ![depth] = [ start |-> offset, length |-> length,
                                  host |-> host ] ]

(* The kind of access recorded when it is outside its array *)
Undefined(kind, outside) == IF outside THEN {kind} ELSE {}

(* f with f[k] = v, k a new or an old key *)
Store(f, k, v) == [x \in (DOMAIN f) \cup {k} |-> IF x = k THEN v ELSE f[x]]

(* What the steps' undefined accesses yield when they are defined after all *)
NoOracle == [rcb |-> "NULL", rend |-> 0, rout |-> 0, hit |-> FALSE]

(* The outcomes of an out-of-bounds access: the pointer a read of          *)
(* callbacks[] yields (NULL or a continuation the driver has stored         *)
(* somewhere), the offsets a read of end[] or output[] yields, and whether  *)
(* a write of end[] lands on the adjacent depth byte                        *)
Oracles ==
    [ rcb : {"NULL"} \cup { c \in AllCallbacks : pushed[c] > 0 },
      rend : {0, 64}, rout : {0}, hit : BOOLEAN ]

---------------------------------------------------------------------------
(* dcp_push: call the DCP method `method`, continuation cb(cookie) *)

dcp_push(s, oob, method, data, cb, cookie, o) ==
    LET context == dcp_call_context(s, oob)
        cn == dcp_get_channel(context)
        c == s.ch[cn]
        in_len == ThunkLen[method][1]
        out_len == ThunkLen[method][2]
        t == dcp_methods[method]
        header == [ tag |-> <<t[4], t[3], t[2], t[1]>>,
                    in_len |-> in_len, out_len |-> out_len, data |-> data ]
        pd == dcp_push_depth(c.depth)
        depth == pd.ret
        offset == dcp_packet_start(c, depth, o)
        out == dcp_tx_offset(context) + offset
        data_len == HeaderSize + in_len + out_len
        endv == (offset + ALIGN(data_len, DCP_PACKET_ALIGNMENT)) % U16
        inb == depth \in Slots
        c2 == IF inb
              THEN [ c EXCEPT !.depth = pd.depth,
                              !.callbacks[depth] = cb,
                              !.cookies[depth] = cookie,
                              !.output[depth] = out + HeaderSize + in_len,
                              !.end[depth] = endv ]
              ELSE [ c EXCEPT !.depth = IF o.hit THEN endv % U8 ELSE pd.depth ]
    IN  [ s EXCEPT !.ch[cn] = c2,
                   !.packets[cn] =
                       IF inb THEN PacketAt(@, depth, offset, data_len, TRUE) ELSE @,
                   !.shmem = Store(s.shmem, out, header),
                   !.sent = Append(s.sent,
                                   dcpep_msg(context, data_len, offset, method)),
                   !.pushed[cb] = @ + 1,
                   !.ub = s.ub \cup Undefined("write", ~inb)
                              \cup Undefined("read", depth > 0 /\ (depth - 1) \notin Slots) ]

(* dcp_ack: ack a callback from the DCP *)
dcp_ack(s, context) ==
    LET cn == dcp_get_channel(context)
    IN  [ s EXCEPT !.ch[cn].depth = dcp_pop_depth(s.ch[cn].depth),
                   !.sent = Append(s.sent, dcpep_ack(context)) ]

---------------------------------------------------------------------------
(* The continuations.  boot_done, complete_pmu_service_matched and          *)
(* complete_backlight_service_matched set the answer of the callback one    *)
(* level up on ch_cb and ack it on DCP_CONTEXT_CB.                          *)

ack_deferred_true(s, o) ==
    LET c == s.ch["ch_cb"]
        idx == c.depth - 1
        inb == idx \in Slots
        succ == IF inb THEN c.output[idx] ELSE o.rout
        s1 == [ s EXCEPT !.shmem = IF inb THEN Store(s.shmem, succ, [u8 |-> 1])
                                   ELSE s.shmem,
                         !.ub = s.ub \cup Undefined("read", ~inb) ]
    IN  dcp_ack(s1, DCP_CONTEXT_CB)

(* main_display = result != 0; active = true *)
res_is_main_display(s, result) ==
    [ s EXCEPT !.main_display = (result # 0), !.active = TRUE ]

(* The startup chain: dcp_started calls init_1, each step pushes the next *)
init_3(s, o) ==
    dcp_push(s, FALSE, "dcpep_is_main_display", 0, "res_is_main_display", 0, o)

init_2(s, o) ==
    dcp_push(s, FALSE, "dcpep_first_client_open", 0, "init_3", 0, o)

init_1(s, o) ==
    dcp_push(s, FALSE, "dcpep_enable_disable_video_power_savings", 0,
             "init_2", 0, o)

dcp_started(s, o) == init_1(s, o)

(* The startup chain of dcp.c, the engine before iomfb.c was split off.    *)
(* Its functions dcp_started, init_2, init_3 and init_done carry the prefix *)
(* dcp_c_ here, the names without it being those of iomfb.c.  Its           *)
(* dcp_started pushes first_client_open and sets active at once.            *)
dcp_c_init_done(s) == s

dcp_c_init_3(s, o) ==
    dcp_push(s, FALSE, "dcpep_set_power_state", 1, "dcp_c_init_done", 0, o)

dcp_c_init_2(s, o) ==
    dcp_push(s, FALSE, "dcpep_first_client_open", 0, "dcp_c_init_3", 0, o)

dcp_c_started(s, o) == [ dcp_c_init_2(s, o) EXCEPT !.active = TRUE ]

(* The display path.  dcp_drm_crtc_vblank is the vblank notification;      *)
(* schedule_work(&dcp->vblank_wq) queues dcp_delayed_vblank, which makes   *)
(* the notification when the work runs, once however often it was queued.  *)
dcp_drm_crtc_vblank(s) == [ s EXCEPT !.vblanks = @ + 1 ]

schedule_vblank(s) == [ s EXCEPT !.vblank_wq = TRUE ]

dcp_delayed_vblank_lost(s) == [ s EXCEPT !.vblank_wq = FALSE ]

dcp_delayed_vblank(s) == dcp_drm_crtc_vblank([ s EXCEPT !.vblank_wq = FALSE ])

(* dcp_swapped: the reply to swap_submit; ret is resp->ret *)
dcp_swapped(s, ret) ==
    IF ret # 0
    THEN dcp_drm_crtc_vblank(s)
    ELSE [ s EXCEPT !.released = @ \o s.swapped_out_fbs,
                    !.swapped_out_fbs = <<>> ]

(* dcp_swap_started: the reply to swap_start carries the swap id, which is *)
(* stored in dcp->swap and goes out with the swap_submit request           *)
dcp_swap_started_keeps_id(s, swap_id, o) ==
    dcp_push(s, FALSE, "dcpep_swap_submit", s.swap_id, "dcp_swapped", 0, o)

dcp_swap_started(s, swap_id, o) ==
    LET s1 == [ s EXCEPT !.swap_id = swap_id ]
    IN  dcp_push(s1, FALSE, "dcpep_swap_submit", s1.swap_id, "dcp_swapped", 0, o)

do_swap(s, o) ==
    IF s.connected
    THEN dcp_push(s, FALSE, "dcpep_swap_start", 0, "dcp_swap_started", 0, o)
    ELSE dcp_drm_crtc_vblank(s)

(* The wait cookies (struct dcp_wait_cookie, struct dcp_swap_cookie).  A    *)
(* cookie is its place in wait, the cookies allocated so far, and 0 is     *)
(* NULL.  refcount is the kref and done the completion; put_by, released   *)
(* and stale are history: the sides that dropped a reference, how often    *)
(* the release function freed the cookie, and how often its memory was     *)
(* used after that.                                                        *)
NewCookie ==
    [ refcount |-> 2, done |-> FALSE, put_by |-> << >>, released |-> 0,
      stale |-> 0 ]

\* a cookie whose only reference is that of the caller
kzalloc_cookie_unshared(s) ==
    [ s EXCEPT !.wait = Append(@, [ NewCookie EXCEPT !.refcount = 1 ]) ]

(* kzalloc, init_completion, kref_init and the kref_get for the receiver *)
kzalloc_cookie(s) == [ s EXCEPT !.wait = Append(@, NewCookie) ]

\* a use of the memory of the cookie, which is undefined once it is freed
cookie_use(s, cookie) ==
    IF s.wait[cookie].released > 0
    THEN [ s EXCEPT !.wait[cookie].stale = @ + 1, !.ub = @ \cup {"write"} ]
    ELSE s

complete(s, cookie) == [ cookie_use(s, cookie) EXCEPT !.wait[cookie].done = TRUE ]

(* release_wait_cookie and release_swap_cookie: kfree *)
release_wait_cookie(s, cookie) == [ s EXCEPT !.wait[cookie].released = @ + 1 ]

kref_put_counted(s, cookie) ==
    IF s.wait[cookie].refcount = 0 THEN release_wait_cookie(s, cookie) ELSE s

kref_put(s, cookie, side) ==
    kref_put_counted([ cookie_use(s, cookie) EXCEPT
                         !.wait[cookie].refcount = @ - 1,
                         !.wait[cookie].put_by = Append(@, side) ],
                     cookie)

(* complete(&wait->done) wakes the dcp_flush that waits for the modeset *)
complete_set_digital_out_mode(s, cookie) ==
    IF cookie # 0 THEN kref_put(complete(s, cookie), cookie, "receiver") ELSE s

(* The continuations of dcp_poweroff: the clear swap and the power state   *)
dcp_swap_cleared(s, ret, cookie) ==
    dcp_swapped(IF cookie # 0
                THEN kref_put(complete(s, cookie), cookie, "receiver") ELSE s,
                ret)

dcp_swap_clear_started(s, swap_id, cookie, o) ==
    dcp_push([ (IF cookie # 0 THEN cookie_use(s, cookie) ELSE s)
                 EXCEPT !.swap_id = swap_id ],
             FALSE, "dcpep_swap_submit", swap_id, "dcp_swap_cleared", cookie, o)

complete_set_powerstate(s, cookie) ==
    IF cookie # 0 THEN kref_put(complete(s, cookie), cookie, "receiver") ELSE s

(* The boot chain D116 starts; boot_done answers D116 *)
boot_done(s, o) == ack_deferred_true(s, o)

boot_5(s, o) ==
    dcp_push(s, FALSE, "dcpep_set_display_refresh_properties", 0,
             "boot_done", 0, o)

boot_4(s, o) ==
    dcp_push(s, FALSE, "dcpep_late_init_signal", 0, "boot_5", 0, o)

(* A boot_3 that goes on with the late-init signal at once *)
boot_3_skips(s, o) ==
    dcp_push(s, FALSE, "dcpep_late_init_signal", 0, "boot_5", 0, o)

boot_3(s, o) ==
    dcp_push(s, FALSE, "dcpep_flush_supports_power", 1, "boot_4", 0, o)

boot_2(s, o) ==
    dcp_push(s, FALSE, "dcpep_setup_video_limits", 0, "boot_3", 0, o)

boot_1_5(s, o) ==
    dcp_push(s, FALSE, "dcpep_create_default_fb", 0, "boot_2", 0, o)

complete_vi_set_temperature_hint(s) == dcp_ack(s, DCP_CONTEXT_CB)

complete_pmu_service_matched(s, o) == ack_deferred_true(s, o)

complete_backlight_service_matched(s, o) == ack_deferred_true(s, o)

(* dcp_on_final completes the cookie dcp_poweron waits for *)
dcp_on_final(s, cookie) ==
    IF cookie # 0 THEN kref_put(complete(s, cookie), cookie, "receiver") ELSE s

dcp_on_set_parameter(s, cookie, o) ==
    dcp_push(s, FALSE, "dcpep_set_parameter_dcp", 14, "dcp_on_final", cookie, o)

(* Call continuation cb(dcp, out, cookie); resp is the response at out *)
Invoke(s, cb, resp, cookie, o) ==
    LET s0 == [ s EXCEPT !.invoked = Append(s.invoked, <<cb, cookie>>) ]
    IN  CASE cb = "dcp_started" -> dcp_started(s0, o)
          [] cb = "init_2" -> init_2(s0, o)
          [] cb = "init_3" -> init_3(s0, o)
          [] cb = "res_is_main_display" -> res_is_main_display(s0, resp)
          [] cb = "boot_1_5" -> boot_1_5(s0, o)
          [] cb = "boot_2" -> boot_2(s0, o)
          [] cb = "boot_3" -> boot_3(s0, o)
          [] cb = "boot_4" -> boot_4(s0, o)
          [] cb = "boot_5" -> boot_5(s0, o)
          [] cb = "boot_done" -> boot_done(s0, o)
          [] cb = "complete_vi_set_temperature_hint" ->
               complete_vi_set_temperature_hint(s0)
          [] cb = "complete_pmu_service_matched" ->
               complete_pmu_service_matched(s0, o)
          [] cb = "complete_backlight_service_matched" ->
               complete_backlight_service_matched(s0, o)
          [] cb = "dcp_on_final" -> dcp_on_final(s0, cookie)
          [] cb = "dcp_on_set_parameter" -> dcp_on_set_parameter(s0, cookie, o)
          [] cb = "dcp_c_started" -> dcp_c_started(s0, o)
          [] cb = "dcp_c_init_3" -> dcp_c_init_3(s0, o)
          [] cb = "dcp_c_init_done" -> dcp_c_init_done(s0)
          [] cb = "dcp_swap_started" -> dcp_swap_started(s0, resp, o)
          [] cb = "dcp_swapped" -> dcp_swapped(s0, resp)
          [] cb = "complete_set_digital_out_mode" ->
               complete_set_digital_out_mode(s0, cookie)
          [] cb = "dcp_swap_clear_started" ->
               dcp_swap_clear_started(s0, resp, cookie, o)
          [] cb = "dcp_swap_cleared" -> dcp_swap_cleared(s0, resp, cookie)
          [] cb = "complete_set_powerstate" -> complete_set_powerstate(s0, cookie)
          [] cb = "record" -> s0

---------------------------------------------------------------------------
(* Callbacks from the DCP *)

(* (u32)x > n for an int x: a negative x converts to 2^32 + x, above any n  *)
(* a digit is compared with                                                 *)
u32_gt(x, n) == x < 0 \/ x > n

(* A parser that does not look at the marker byte *)
dcp_parse_tag_any_marker(tag) ==
    LET d == [i \in 1..3 |-> tag[i] - Chr0]
    IN  IF \E i \in 1..3 : u32_gt(d[i], 9) THEN -EINVAL
        ELSE d[1] + (d[2] * 10) + (d[3] * 100)

(* "D123" -> 123; tag[1..4] are the C tag[0..3]; -EINVAL on failure *)
dcp_parse_tag(tag) ==
    LET d == [i \in 1..3 |-> tag[i] - Chr0]
    IN  IF tag[4] # ChrD THEN -EINVAL
        ELSE IF \E i \in 1..3 : u32_gt(d[i], 9) THEN -EINVAL
        ELSE d[1] + (d[2] * 10) + (d[3] * 100)

---------------------------------------------------------------------------
(* parser.c: the property dictionaries.  A context is the blob, its length *)
(* and the cursor; blob[i + 1] is the byte i.  The blobs of the model are   *)
(* far shorter than 2^32 bytes, so the u32 cursor never wraps.              *)

DCP_PARSE_HEADER == 211

DCP_TYPE_DICTIONARY == 1
DCP_TYPE_ARRAY == 2
DCP_TYPE_INT64 == 4
DCP_TYPE_STRING == 9
DCP_TYPE_BLOB == 10
DCP_TYPE_BOOL == 11

\* ret |= x for values that are 0 or -EINVAL
or_ret(a, b) == IF a # 0 THEN a ELSE b

(* A for loop whose body is Step, run n times from the state st: the       *)
(* first half of the rounds, then the rest.  The test of half has the      *)
(* first half evaluated before the second is entered.                      *)
RECURSIVE Iterate(_, _, _)
Iterate(Step(_), st, n) ==
    IF n <= 0 THEN st
    ELSE IF n = 1 THEN Step(st)
    ELSE LET half == Iterate(Step, st, n \div 2)
         IN  IF half = half THEN Iterate(Step, half, n - (n \div 2)) ELSE st

ByteAt(ctx, i) == ctx.blob[i + 1]

(* struct dcp_parse_tag at the offset at: size in bits 0..23, type in bits *)
(* 24..28, padding in bits 29..30, last in bit 31                          *)
TagAt(ctx, at) ==
    [ size |-> ByteAt(ctx, at) + (ByteAt(ctx, at + 1) * 256)
                  + (ByteAt(ctx, at + 2) * 65536),
      type |-> ByteAt(ctx, at + 3) % 32,
      padding |-> (ByteAt(ctx, at + 3) \div 32) % 4,
      last |-> ByteAt(ctx, at + 3) \div 128 ]

NoTag == [ size |-> 0, type |-> 0, padding |-> 0, last |-> 0 ]

(* The s64 at the offset at, little endian.  Exact from -2^24 to 2^24 - 1; *)
(* what lies outside is a value of the same sign beyond every number the   *)
(* model compares it with.                                                 *)
S64At(ctx, at) ==
    LET lo == ByteAt(ctx, at) + (ByteAt(ctx, at + 1) * 256)
                 + (ByteAt(ctx, at + 2) * 65536)
        hi == { ByteAt(ctx, at + i) : i \in 3..7 }
    IN  IF hi = {0} THEN lo
        ELSE IF hi = {255} THEN lo - 16777216
        ELSE IF ByteAt(ctx, at + 7) >= 128 THEN -67108864
        ELSE 67108864

\* parse_bytes: at is where the bytes are
parse_bytes(ctx, count) ==
    IF ctx.pos + count > ctx.len
    THEN [ ctx |-> ctx, err |-> TRUE, at |-> 0 ]
    ELSE [ ctx |-> [ ctx EXCEPT !.pos = @ + count ], err |-> FALSE,
           at |-> ctx.pos ]

\* a parse_tag that reads the tag where the cursor is
parse_tag_unaligned(ctx) ==
    LET r == parse_bytes(ctx, 4)
    IN  IF r.err THEN [ ctx |-> r.ctx, err |-> TRUE, tag |-> NoTag ]
        ELSE [ ctx |-> r.ctx, err |-> TagAt(ctx, r.at).padding # 0,
               tag |-> TagAt(ctx, r.at) ]

(* parse_tag: the cursor is rounded up to a multiple of 4 before the read, *)
(* and stays there when the read fails                                     *)
parse_tag(ctx) ==
    LET r == parse_bytes([ ctx EXCEPT !.pos = ALIGN(@, 4) ], 4)
    IN  IF r.err THEN [ ctx |-> r.ctx, err |-> TRUE, tag |-> NoTag ]
        ELSE [ ctx |-> r.ctx, err |-> TagAt(ctx, r.at).padding # 0,
               tag |-> TagAt(ctx, r.at) ]

parse_tag_of_type(ctx, type) ==
    LET r == parse_tag(ctx)
    IN  IF r.err THEN r ELSE [ r EXCEPT !.err = r.tag.type # type ]

RECURSIVE skip(_)

\* ret |= skip(handle)
skip_or(st) ==
    LET r == skip(st.ctx)
    IN  [ ctx |-> r.ctx, ret |-> or_ret(st.ret, r.ret) ]

skip_n(ctx, n, ret) == Iterate(skip_or, [ ctx |-> ctx, ret |-> ret ], n)

\* a skip that takes a dictionary for an array of as many values
skip_flat(ctx) ==
    LET r == parse_tag(ctx)
        t == r.tag
    IN  IF r.err THEN [ ctx |-> r.ctx, ret |-> -EINVAL ]
        ELSE CASE t.type \in {DCP_TYPE_DICTIONARY, DCP_TYPE_ARRAY} ->
                    skip_n(r.ctx, t.size, 0)
               [] t.type = DCP_TYPE_INT64 ->
                    [ ctx |-> [ r.ctx EXCEPT !.pos = @ + 8 ], ret |-> 0 ]
               [] t.type \in {DCP_TYPE_STRING, DCP_TYPE_BLOB} ->
                    [ ctx |-> [ r.ctx EXCEPT !.pos = @ + t.size ], ret |-> 0 ]
               [] OTHER -> [ ctx |-> r.ctx, ret |-> 0 ]

skip(ctx) ==
    LET r == parse_tag(ctx)
        t == r.tag
    IN  IF r.err THEN [ ctx |-> r.ctx, ret |-> -EINVAL ]
        ELSE CASE t.type = DCP_TYPE_DICTIONARY -> skip_n(r.ctx, 2 * t.size, 0)
               [] t.type = DCP_TYPE_ARRAY -> skip_n(r.ctx, t.size, 0)
               [] t.type = DCP_TYPE_INT64 ->
                    [ ctx |-> [ r.ctx EXCEPT !.pos = @ + 8 ], ret |-> 0 ]
               [] t.type \in {DCP_TYPE_STRING, DCP_TYPE_BLOB} ->
                    [ ctx |-> [ r.ctx EXCEPT !.pos = @ + t.size ], ret |-> 0 ]
               [] t.type = DCP_TYPE_BOOL -> [ ctx |-> r.ctx, ret |-> 0 ]
               [] OTHER -> [ ctx |-> r.ctx, ret |-> -EINVAL ]

\* parse_string: str is the copy, without the NUL that ends it
parse_string(ctx) ==
    LET r == parse_tag_of_type(ctx, DCP_TYPE_STRING)
        in == parse_bytes(r.ctx, r.tag.size)
    IN  IF r.err THEN [ ctx |-> r.ctx, err |-> TRUE, str |-> <<>> ]
        ELSE IF in.err THEN [ ctx |-> in.ctx, err |-> TRUE, str |-> <<>> ]
        ELSE [ ctx |-> in.ctx, err |-> FALSE,
               str |-> SubSeq(ctx.blob, in.at + 1, in.at + r.tag.size) ]

\* parse_int: value is meaningful when ret = 0
parse_int(ctx) ==
    LET r == parse_tag_of_type(ctx, DCP_TYPE_INT64)
        in == parse_bytes(r.ctx, 8)
    IN  IF r.err THEN [ ctx |-> r.ctx, ret |-> -EINVAL, value |-> 0 ]
        ELSE IF in.err THEN [ ctx |-> in.ctx, ret |-> -EINVAL, value |-> 0 ]
        ELSE [ ctx |-> in.ctx, ret |-> 0, value |-> S64At(ctx, in.at) ]

parse_bool(ctx) ==
    LET r == parse_tag_of_type(ctx, DCP_TYPE_BOOL)
    IN  IF r.err THEN [ ctx |-> r.ctx, ret |-> -EINVAL, b |-> FALSE ]
        ELSE [ ctx |-> r.ctx, ret |-> 0, b |-> r.tag.size # 0 ]

(* iterator_begin: len is 0 when the tag is not the one of the container, *)
(* the compound literal having zeroed it                                   *)
iterator_begin(ctx, dict) ==
    LET r == parse_tag_of_type(ctx, IF dict THEN DCP_TYPE_DICTIONARY
                                    ELSE DCP_TYPE_ARRAY)
    IN  IF r.err THEN [ ctx |-> r.ctx, ret |-> -EINVAL, len |-> 0 ]
        ELSE [ ctx |-> r.ctx, ret |-> 0, len |-> r.tag.size ]

\* parse: the context at the first value, and -EINVAL without the header
parse(blob, size) ==
    LET ctx == [ blob |-> blob, len |-> size, pos |-> 0 ]
        header == parse_bytes(ctx, 4)
    IN  IF header.err THEN [ ctx |-> header.ctx, ret |-> -EINVAL ]
        ELSE [ ctx |-> header.ctx,
               ret |-> IF SubSeq(blob, 1, 4) = <<DCP_PARSE_HEADER, 0, 0, 0>>
                       THEN 0 ELSE -EINVAL ]

(* The keys, as the bytes of their ASCII letters *)
K_Active == <<65, 99, 116, 105, 118, 101>>
K_Total == <<84, 111, 116, 97, 108>>
K_FrontPorch == <<70, 114, 111, 110, 116, 80, 111, 114, 99, 104>>
K_SyncWidth == <<83, 121, 110, 99, 87, 105, 100, 116, 104>>
K_PreciseSyncRate ==
    <<80, 114, 101, 99, 105, 115, 101, 83, 121, 110, 99, 82, 97, 116, 101>>
K_Colorimetry == <<67, 111, 108, 111, 114, 105, 109, 101, 116, 114, 121>>
K_Depth == <<68, 101, 112, 116, 104>>
K_DynamicRange == <<68, 121, 110, 97, 109, 105, 99, 82, 97, 110, 103, 101>>
K_EOTF == <<69, 79, 84, 70>>
K_ID == <<73, 68>>
K_IsVirtual == <<73, 115, 86, 105, 114, 116, 117, 97, 108>>
K_PixelEncoding ==
    <<80, 105, 120, 101, 108, 69, 110, 99, 111, 100, 105, 110, 103>>
K_Score == <<83, 99, 111, 114, 101>>
K_HorizontalAttributes ==
    <<72, 111, 114, 105, 122, 111, 110, 116, 97, 108, 65, 116, 116, 114,
      105, 98, 117, 116, 101, 115>>
K_VerticalAttributes ==
    <<86, 101, 114, 116, 105, 99, 97, 108, 65, 116, 116, 114, 105, 98, 117,
      116, 101, 115>>
K_ColorModes == <<67, 111, 108, 111, 114, 77, 111, 100, 101, 115>>
K_MaxHorizontalImageSize ==
    <<77, 97, 120, 72, 111, 114, 105, 122, 111, 110, 116, 97, 108, 73, 109,
      97, 103, 101, 83, 105, 122, 101>>
K_MaxVerticalImageSize ==
    <<77, 97, 120, 86, 101, 114, 116, 105, 99, 97, 108, 73, 109, 97, 103,
      101, 83, 105, 122, 101>>
K_TimingElements ==
    <<84, 105, 109, 105, 110, 103, 69, 108, 101, 109, 101, 110, 116, 115>>
K_DisplayAttributes ==
    <<68, 105, 115, 112, 108, 97, 121, 65, 116, 116, 114, 105, 98, 117,
      116, 101, 115>>

(* strcmp reads a string up to its first NUL *)
CStr(str) ==
    LET z == { i \in 1..Len(str) : str[i] = 0 }
    IN  IF z = {} THEN str
        ELSE SubSeq(str, 1, (CHOOSE i \in z : \A k \in z : i <= k) - 1)

(* A local struct that no initializer fills: set holds the members that   *)
(* were assigned, every other member still reads as the indeterminate j   *)
Uninitialized(members, j) == [ m \in members |-> j ] @@ [ set |-> {} ]
Assign(st, member, value) ==
    [ st EXCEPT ![member] = value, !.set = @ \cup {member} ]

DimensionMembers ==
    {"active", "total", "front_porch", "sync_width", "precise_sync_rate"}

dimension_member(key) ==
    CASE key = K_Active -> "active"
      [] key = K_Total -> "total"
      [] key = K_FrontPorch -> "front_porch"
      [] key = K_SyncWidth -> "sync_width"
      [] key = K_PreciseSyncRate -> "precise_sync_rate"
      [] OTHER -> "skip"

\* The value of one key of a dimension
parse_dimension_value(st, key, member, int) ==
        IF st.ret # 0 THEN st
        ELSE IF key.err THEN [ st EXCEPT !.ctx = key.ctx, !.ret = -EINVAL ]
        ELSE IF member = "skip"
        THEN [ st EXCEPT !.ctx = skip(key.ctx).ctx ]
        ELSE [ ctx |-> int.ctx, ret |-> int.ret,
               dim |-> IF int.ret = 0 THEN Assign(st.dim, member, int.value)
                       ELSE st.dim ]

\* One pair of a dimension after its key
parse_dimension_key(st, key) ==
    parse_dimension_value(st, key, dimension_member(CStr(key.str)),
                          parse_int(key.ctx))

(* One round of the loop of parse_dimension.  PTR_ERR(handle) is the low   *)
(* bits of the address of the context, which are not zero: the loop ends   *)
(* with an error, here -EINVAL                                             *)
parse_dimension_entry(st) ==
    parse_dimension_key(st, parse_string(st.ctx))

\* The loop of parse_dimension over the it.len pairs
parse_dimension_loop(ctx, dim, it) ==
        Iterate(parse_dimension_entry,
                [ ctx |-> it.ctx, ret |-> 0, dim |-> dim ], it.len)

parse_dimension(ctx, dim) ==
    parse_dimension_loop(ctx, dim, iterator_begin(ctx, TRUE))

ColorModeInts ==
    {K_Colorimetry, K_Depth, K_DynamicRange, K_EOTF, K_PixelEncoding}

\* The value of one key of an entry of ColorModes
parse_color_mode_value(st, key, k, int, bool) ==
        IF st.ret # 0 THEN st
        ELSE IF key.err THEN [ st EXCEPT !.ctx = key.ctx, !.ret = -EINVAL ]
        ELSE IF k \in ColorModeInts
        THEN [ st EXCEPT !.ctx = int.ctx, !.ret = int.ret ]
        ELSE IF k = K_ID
        THEN [ st EXCEPT !.ctx = int.ctx, !.ret = int.ret,
                         !.cmode = IF int.ret = 0
                                   THEN Assign(@, "id", int.value) ELSE @ ]
        ELSE IF k = K_IsVirtual
        THEN [ st EXCEPT !.ctx = bool.ctx, !.ret = bool.ret,
                         !.is_virtual = IF bool.ret = 0 THEN bool.b ELSE @ ]
        ELSE IF k = K_Score
        THEN [ st EXCEPT !.ctx = int.ctx, !.ret = int.ret,
                         !.cmode = IF int.ret = 0
                                   THEN Assign(@, "score", int.value) ELSE @ ]
        ELSE [ st EXCEPT !.ctx = skip(key.ctx).ctx ]

\* One pair of an entry of ColorModes after its key
parse_color_mode_key(st, key) ==
    parse_color_mode_value(st, key, CStr(key.str), parse_int(key.ctx),
                           parse_bool(key.ctx))

\* One key of an entry of ColorModes
parse_color_mode_entry(st) ==
    parse_color_mode_key(st, parse_string(st.ctx))

\* The test of one entry of ColorModes after its pairs e
parse_color_mode_test(st, it, e) ==
    LET reads == IF e.is_virtual THEN {}
                 ELSE IF e.cmode.score < 0 THEN {"score"}
                 ELSE {"score", "id"}
        partial == e.is_virtual \/ e.cmode.score < 0 \/ e.cmode.id < 0
        read == [ st EXCEPT !.ctx = e.ctx,
                            !.uninit = @ \/ ~(reads \subseteq e.cmode.set) ]
    IN  IF st.ret # 0 THEN st
        ELSE IF e.ret # 0 THEN [ st EXCEPT !.ctx = e.ctx, !.ret = e.ret ]
        ELSE IF partial THEN read
        ELSE IF e.cmode.score > st.best_score
        THEN [ read EXCEPT !.best_score = e.cmode.score,
                           !.best_id = e.cmode.id ]
        ELSE read

\* The loop over the it.len pairs of one entry of ColorModes
parse_color_mode_keys(st, it) ==
    parse_color_mode_test(st, it,
                          Iterate(parse_color_mode_entry, [ ctx |-> it.ctx, ret |-> 0, is_virtual |-> TRUE, cmode |-> Uninitialized({"id", "score"}, st.j) ], it.len))

(* One entry of ColorModes.  uninit tells that the test of the entry read  *)
(* a member of cmode that no key had assigned                              *)
parse_color_mode(st) ==
    parse_color_mode_keys(st, iterator_begin(st.ctx, TRUE))

\* The loop of parse_color_modes over the it.len entries
parse_color_modes_loop(ctx, j, it) ==
        Iterate(parse_color_mode,
                [ ctx |-> it.ctx, ret |-> 0, best_id |-> -1,
                  best_score |-> -1, uninit |-> FALSE, j |-> j ], it.len)

\* parse_color_modes: j is what an unassigned member of cmode reads as
parse_color_modes(ctx, j) ==
    parse_color_modes_loop(ctx, j, iterator_begin(ctx, FALSE))

(* Integers wider than those of the checker are sequences of bytes, the   *)
(* lowest first.  Bytes(x, n) is the two's complement of x in n bytes      *)
Bytes(x, n) ==
    [ i \in 1..n |-> IF i <= 3 THEN (x \div (U8 ^ (i - 1))) % U8
                     ELSE IF i = 4 THEN (x \div (U8 * U16)) % U8
                     ELSE IF x < 0 THEN U8 - 1 ELSE 0 ]

\* the bytes of the columns cols, whose members may exceed a byte: c carries
RECURSIVE Carried(_, _)
Carried(cols, c) ==
    IF cols = << >> THEN << >>
    ELSE << (Head(cols) + c) % U8 >>
             \o Carried(Tail(cols), (Head(cols) + c) \div U8)

Normalize(cols) == Carried(cols, 0)

\* the column k of the product of a and b, from the byte i of a on
RECURSIVE Column(_, _, _, _)
Column(a, b, k, i) ==
    IF i > k \/ i > Len(a) THEN 0
    ELSE (IF k + 1 - i <= Len(b) THEN a[i] * b[k + 1 - i] ELSE 0)
             + Column(a, b, k, i + 1)

\* the low n bytes of the product of a and b
Times(a, b, n) == Normalize([ k \in 1..n |-> Column(a, b, k, 1) ])

\* a plus the small number x, in the bytes of a
Plus(a, x) == Normalize([ a EXCEPT ![1] = @ + x ])

\* the quotient of the bytes 1 to k of a, with r left of the higher ones
RECURSIVE Divided(_, _, _, _)
Divided(a, d, k, r) ==
    IF k = 0 THEN << >>
    ELSE Divided(a, d, k - 1, ((r * U8) + a[k]) % d)
             \o << ((r * U8) + a[k]) \div d >>

\* the quotient of a by the small number d
Over(a, d) == Divided(a, d, Len(a), 0)

\* the u32 bytes b as an int
s32(b) ==
    b[1] + (b[2] * U8) + (b[3] * U16)
         + ((IF b[4] >= 128 THEN b[4] - U8 ELSE b[4]) * U8 * U16)

\* mul_u32_u32: the u64 product of two u32
mul_u32_u32(a, b) == Times(SubSeq(a, 1, 4), SubSeq(b, 1, 4), 8)

\* a division that drops the remainder
DIV_ULL(x, divisor) == Over(x, divisor)

\* DIV_ROUND_CLOSEST_ULL: the u64 x over divisor, to the closest
DIV_ROUND_CLOSEST_ULL(x, divisor) == Over(Plus(x, divisor \div 2), divisor)

(* calculate_clock: pixels is a u32 that takes the low half of the s64     *)
(* product, clock a u64 (8 bytes), clock >> 16 its bytes 3 to 8 and the    *)
(* result a u32                                                            *)
calculate_clock(horiz, vert) ==
    SubSeq(DIV_ROUND_CLOSEST_ULL(
               SubSeq(mul_u32_u32(
                          Times(Bytes(horiz.total, 8), Bytes(vert.total, 8), 4),
                          Bytes(vert.precise_sync_rate, 8)), 3, 8) \o << 0, 0 >>,
               1000), 1, 4)

\* the conversion of an s64 to a u16 member
u16(x) == ((x % U16) + U16) % U16

\* The value of one key of an entry of TimingElements
parse_mode_value(st, key, k, int, bool, horiz, vert, color) ==
        IF st.ret # 0 THEN st
        ELSE IF key.err THEN [ st EXCEPT !.ctx = key.ctx, !.ret = -EINVAL ]
        ELSE IF st.is_virtual THEN [ st EXCEPT !.ctx = skip(key.ctx).ctx ]
        ELSE IF k = K_HorizontalAttributes
        THEN [ st EXCEPT !.ctx = horiz.ctx, !.ret = horiz.ret,
                         !.horiz = horiz.dim ]
        ELSE IF k = K_VerticalAttributes
        THEN [ st EXCEPT !.ctx = vert.ctx, !.ret = vert.ret,
                         !.vert = vert.dim ]
        ELSE IF k = K_ColorModes
        THEN [ st EXCEPT !.ctx = color.ctx, !.ret = color.ret,
                         !.best_color_mode = color.best_id,
                         !.uninit = @ \/ color.uninit ]
        ELSE IF k = K_ID
        THEN [ st EXCEPT !.ctx = int.ctx, !.ret = int.ret,
                         !.id = IF int.ret = 0 THEN int.value ELSE @ ]
        ELSE IF k = K_IsVirtual
        THEN [ st EXCEPT !.ctx = bool.ctx, !.ret = bool.ret,
                         !.is_virtual = IF bool.ret = 0 THEN bool.b ELSE @ ]
        ELSE IF k = K_Score
        THEN [ st EXCEPT !.ctx = int.ctx, !.ret = int.ret,
                         !.score = IF int.ret = 0 THEN int.value ELSE @,
                         !.score_set = @ \/ int.ret = 0 ]
        ELSE [ st EXCEPT !.ctx = skip(key.ctx).ctx ]

\* One pair of an entry of TimingElements after its key
parse_mode_key(st, key) ==
    parse_mode_value(st, key, CStr(key.str), parse_int(key.ctx),
                     parse_bool(key.ctx), parse_dimension(key.ctx, st.horiz),
                     parse_dimension(key.ctx, st.vert),
                     parse_color_modes(key.ctx, st.j))

\* One key of an entry of TimingElements
parse_mode_entry(st) ==
    parse_mode_key(st, parse_string(st.ctx))

\* no mode is refused for its refresh rate
No120HzPanelMode(horiz, vert) == FALSE

\* the 120 Hz modes of the 14 and 16 inch panels, which are not usable
Is120HzPanelMode(horiz, vert) ==
    /\ vert.precise_sync_rate \div U16 = 120
    /\ \/ horiz.active = 3024 /\ vert.active = 1964
       \/ horiz.active = 3456 /\ vert.active = 2234

\* The tests of parse_mode after the pairs e, and the mode it fills
parse_mode_test(ctx, score, score_set, j, width_mm, height_mm, notch_height,
                it, e) ==
    LET out == [ ctx |-> e.ctx, ret |-> e.ret, score |-> e.score,
                 score_set |-> e.score_set, uninit |-> e.uninit,
                 mode |-> << >> ]
        tested == \/ "precise_sync_rate" \notin e.vert.set
                  \/ /\ e.vert.precise_sync_rate \div U16 = 120
                     /\ \/ "active" \notin e.horiz.set
                        \/ /\ e.horiz.active \in {3024, 3456}
                           /\ "active" \notin e.vert.set
        horiz == e.horiz
        vert == [ e.vert EXCEPT !.active = @ - notch_height,
                                !.sync_width = @ + notch_height ]
    IN  IF e.ret # 0 THEN out
        ELSE IF e.best_color_mode < 0 THEN [ out EXCEPT !.ret = -EINVAL ]
        ELSE IF e.is_virtual THEN [ out EXCEPT !.ret = -EINVAL ]
        ELSE IF Is120HzPanelMode(e.horiz, e.vert)
        THEN [ out EXCEPT !.ret = -EINVAL, !.uninit = @ \/ tested ]
        ELSE [ out EXCEPT
                 !.uninit = @ \/ e.vert.set # DimensionMembers
                              \/ (DimensionMembers \ {"precise_sync_rate"})
                                     \ e.horiz.set # {},
                 !.mode =
                   [ type |-> {"DRIVER"},
                     clock |-> s32(calculate_clock(horiz, vert)),
                     vdisplay |-> u16(vert.active),
                     vsync_start |-> u16(vert.active + vert.front_porch),
                     vsync_end |-> u16(vert.active + vert.front_porch
                                           + vert.sync_width),
                     vtotal |-> u16(vert.total),
                     hdisplay |-> u16(horiz.active),
                     hsync_start |-> u16(horiz.active + horiz.front_porch),
                     hsync_end |-> u16(horiz.active + horiz.front_porch
                                           + horiz.sync_width),
                     htotal |-> u16(horiz.total),
                     width_mm |-> width_mm,
                     height_mm |-> height_mm,
                     timing_mode_id |-> e.id,
                     color_mode_id |-> e.best_color_mode ] ]

\* The loop of parse_mode over the it.len pairs
parse_mode_keys(ctx, score, score_set, j, width_mm, height_mm, notch_height,
                it) ==
    parse_mode_test(ctx, score, score_set, j, width_mm, height_mm,
                    notch_height, it,
                    Iterate(parse_mode_entry, [ ctx |-> it.ctx, ret |-> 0, j |-> j, horiz |-> Uninitialized(DimensionMembers, j), vert |-> Uninitialized(DimensionMembers, j), id |-> -1, best_color_mode |-> -1, is_virtual |-> FALSE, uninit |-> FALSE, score |-> score, score_set |-> score_set ], it.len))

(* parse_mode.  score and score_set are the variable of the caller that    *)
(* *score points to; uninit tells that a member of horiz, vert or cmode    *)
(* was read that no key had assigned                                       *)
parse_mode(ctx, score, score_set, j, width_mm, height_mm, notch_height) ==
    parse_mode_keys(ctx, score, score_set, j, width_mm, height_mm,
                    notch_height, iterator_begin(ctx, TRUE))

\* What enumerate_modes does with the result m of parse_mode
enumerate_mode_result(st, m) ==
    LET next == [ st EXCEPT !.ctx = m.ctx, !.score = m.score,
                            !.score_set = m.score_set,
                            !.uninit = @ \/ m.uninit ]
    IN  IF m.ret # 0 THEN next
        ELSE [ next EXCEPT
                 !.modes = Append(@, m.mode),
                 !.uninit = @ \/ ~m.score_set,
                 !.best_score = IF m.score > @ THEN m.score ELSE @,
                 !.best = IF m.score > st.best_score
                          THEN Len(st.modes) + 1 ELSE @ ]

(* One round of the loop of enumerate_modes: an entry that parse_mode      *)
(* refuses leaves no mode, and the cursor where parse_mode left it         *)
enumerate_mode(st) ==
    enumerate_mode_result(st,
                          parse_mode(st.ctx, st.score, st.score_set, st.j, st.width_mm, st.height_mm, st.notch_height))

\* The result of enumerate_modes after its loop e
enumerate_modes_result(ctx, count, allocated, j, width_mm, height_mm,
                       notch_height, it, e) ==
        IF it.ret # 0
        THEN [ ctx |-> it.ctx, err |-> it.ret, modes |-> << >>,
               count |-> count, uninit |-> FALSE, len |-> 0 ]
        ELSE IF ~allocated
        THEN [ ctx |-> it.ctx, err |-> -ENOMEM, modes |-> << >>,
               count |-> 0, uninit |-> FALSE, len |-> 0 ]
        ELSE [ ctx |-> e.ctx, err |-> 0, count |-> Len(e.modes),
               uninit |-> e.uninit, len |-> it.len,
               modes |-> [ i \in 1..Len(e.modes) |->
                             IF i = e.best
                             THEN [ e.modes[i] EXCEPT
                                      !.type = @ \cup {"PREFERRED"} ]
                             ELSE e.modes[i] ] ]

\* The loop of enumerate_modes over the it.len entries
enumerate_modes_loop(ctx, count, allocated, j, width_mm, height_mm,
                     notch_height, it) ==
    enumerate_modes_result(ctx, count, allocated, j, width_mm, height_mm,
                           notch_height, it,
                           Iterate(enumerate_mode, [ ctx |-> it.ctx, j |-> j, modes |-> << >>, score |-> j, score_set |-> FALSE, best_score |-> -1, best |-> 0, uninit |-> FALSE, width_mm |-> width_mm, height_mm |-> height_mm, notch_height |-> notch_height ], it.len))

(* enumerate_modes: err is the ERR_PTR, allocated tells whether            *)
(* kmalloc_array gave memory, count is *count when the function wrote it,  *)
(* len the number of entries that kmalloc_array was asked for              *)
enumerate_modes(ctx, count, allocated, j, width_mm, height_mm, notch_height) ==
    enumerate_modes_loop(ctx, count, allocated, j, width_mm, height_mm,
                         notch_height, iterator_begin(ctx, FALSE))

\* The value of one key of DisplayAttributes
parse_display_attribute_value(st, key, k, int) ==
        IF st.ret # 0 THEN st
        ELSE IF key.err THEN [ st EXCEPT !.ctx = key.ctx, !.ret = -EINVAL ]
        ELSE IF k = K_MaxHorizontalImageSize
        THEN [ st EXCEPT !.ctx = int.ctx, !.ret = int.ret,
                         !.width_cm = IF int.ret = 0 THEN int.value ELSE @ ]
        ELSE IF k = K_MaxVerticalImageSize
        THEN [ st EXCEPT !.ctx = int.ctx, !.ret = int.ret,
                         !.height_cm = IF int.ret = 0 THEN int.value ELSE @ ]
        ELSE [ st EXCEPT !.ctx = skip(key.ctx).ctx ]

\* One pair of DisplayAttributes after its key
parse_display_attribute_key(st, key) ==
    parse_display_attribute_value(st, key, CStr(key.str), parse_int(key.ctx))

\* One key of DisplayAttributes
parse_display_attribute(st) ==
    parse_display_attribute_key(st, parse_string(st.ctx))

\* The result of parse_display_attributes after its loop e
parse_display_attributes_result(ctx, width_mm, height_mm, it, e) ==
        [ ctx |-> e.ctx, ret |-> e.ret,
          width_mm |-> IF e.ret = 0 THEN 10 * e.width_cm ELSE width_mm,
          height_mm |-> IF e.ret = 0 THEN 10 * e.height_cm ELSE height_mm ]

\* The loop of parse_display_attributes over the it.len pairs
parse_display_attributes_loop(ctx, width_mm, height_mm, it) ==
    parse_display_attributes_result(ctx, width_mm, height_mm, it,
                                    Iterate(parse_display_attribute, [ ctx |-> it.ctx, ret |-> 0, width_cm |-> 0, height_cm |-> 0 ], it.len))

\* parse_display_attributes: the millimetres are written when ret = 0
parse_display_attributes(ctx, width_mm, height_mm) ==
    parse_display_attributes_loop(ctx, width_mm, height_mm,
                                  iterator_begin(ctx, TRUE))

(* The encoding that parse reads: a tag of four bytes (24 bits of size,    *)
(* the type, the last bit), the payload, and zeroes up to a multiple of 4  *)
EncTag(type, size, last) ==
    << size % U8, (size \div U8) % U8, size \div U16,
       type + (IF last THEN 128 ELSE 0) >>

RECURSIVE Concat(_)
Concat(seqs) == IF seqs = << >> THEN << >> ELSE Head(seqs) \o Concat(Tail(seqs))

EncInt(v) ==
    EncTag(DCP_TYPE_INT64, 0, FALSE)
        \o << v % U8, (v \div U8) % U8, (v \div U16) % U8 >>
        \o [ i \in 1..5 |-> IF v < 0 THEN 255 ELSE 0 ]

EncBool(b) == EncTag(DCP_TYPE_BOOL, IF b THEN 1 ELSE 0, FALSE)

EncString(str) ==
    EncTag(DCP_TYPE_STRING, Len(str), FALSE) \o str
        \o [ i \in 1..((4 - (Len(str) % 4)) % 4) |-> 0 ]

\* entries is a sequence of <<key, encoded value>>
EncDict(entries) ==
    EncTag(DCP_TYPE_DICTIONARY, Len(entries), FALSE)
        \o Concat([ i \in 1..Len(entries) |->
                      EncString(entries[i][1]) \o entries[i][2] ])

EncArray(values) ==
    EncTag(DCP_TYPE_ARRAY, Len(values), FALSE) \o Concat(values)

\* a blob value: the payload is padded as the one of a string is
EncData(bytes) ==
    EncTag(DCP_TYPE_BLOB, Len(bytes), FALSE) \o bytes
        \o [ i \in 1..((4 - (Len(bytes) % 4)) % 4) |-> 0 ]

EncBlob(value) == << DCP_PARSE_HEADER, 0, 0, 0 >> \o value

(* A u32 in two 16-bit halves, and a size_t below 2^32 likewise *)
U32(hi, lo) == [ hi |-> hi, lo |-> lo ]

\* a + b in 32 bits, and whether the sum left the 32 bits
u32_add(a, b) ==
    U32((a.hi + b.hi + ((a.lo + b.lo) \div U16)) % U16, (a.lo + b.lo) % U16)

u32_carry(a, b) == a.hi + b.hi + ((a.lo + b.lo) \div U16) >= U16

u32_le(a, b) == a.hi < b.hi \/ (a.hi = b.hi /\ a.lo <= b.lo)

\* sizeof(req->data) of struct dcp_set_dcpav_prop_chunk_req
ChunkDataSize == U32(0, 4096)

(* The chunked transfer of a property dictionary.  chunks.alloc tells that *)
(* chunks.data is not NULL and chunks.data[i + 1] is the byte i of the     *)
(* buffer; allocated is whether devm_kzalloc finds the memory.             *)
dcpep_cb_prop_start(s, length, allocated) ==
    LET size == (length.hi * U16) + length.lo
    IN  IF s.chunks.alloc THEN [ s |-> s, ret |-> 0 ]
        ELSE [ s |-> [ s EXCEPT !.chunks =
                         [ length |-> length, alloc |-> allocated,
                           data |-> IF allocated THEN [i \in 1..size |-> 0]
                                    ELSE <<>> ] ],
               ret |-> IF allocated THEN 1 ELSE 0 ]

\* a copy to the start of the buffer, whatever the offset
dcpep_cb_prop_chunk_at_start(s, req) ==
    [ s |-> [ s EXCEPT !.chunks.data =
                [ i \in 1..Len(@) |->
                    IF i <= Len(req.data) /\ i <= req.length.lo
                    THEN req.data[i] ELSE @[i] ] ],
      ret |-> 1 ]

(* memcpy(dcp->chunks.data + req->offset, req->data, req->length): the     *)
(* bytes that fall into the buffer are stored, the copy is recorded in     *)
(* wild when a byte of it falls behind the buffer, and a length above the  *)
(* size of req->data reads behind the request.  req.data are the first     *)
(* bytes of req->data, those after them are zero                           *)
dcpep_cb_prop_chunk(s, req) ==
    LET sum == u32_add(req.offset, req.length)
        n == Len(s.chunks.data)
        from == IF req.offset.hi = 0 THEN req.offset.lo ELSE n
        upto == IF req.length.hi = 0 /\ from + req.length.lo < n
                THEN from + req.length.lo ELSE n
        behind == /\ req.length # U32(0, 0)
                  /\ \/ u32_carry(req.offset, req.length)
                     \/ ~u32_le(sum, U32(n \div U16, n % U16))
        over == ~u32_le(req.length, ChunkDataSize)
    IN  IF ~s.chunks.alloc THEN [ s |-> s, ret |-> 0 ]
        ELSE IF ~u32_le(sum, s.chunks.length) THEN [ s |-> s, ret |-> 0 ]
        ELSE [ s |-> [ s EXCEPT
                         !.chunks.data =
                             [i \in 1..n |->
                                IF from < i /\ i <= upto
                                THEN IF i - from <= Len(req.data)
                                     THEN req.data[i - from] ELSE 0
                                ELSE @[i]],
                         !.wild = IF behind
                                  THEN @ \cup {[ offset |-> req.offset,
                                                 length |-> req.length ]}
                                  ELSE @,
                         !.ub = @ \cup Undefined("write", behind)
                                  \cup Undefined("read", over) ],
               ret |-> 1 ]

(* dcp_set_dimensions: the modes that were probed get the dimensions *)
dcp_set_dimensions(s) ==
    [ s EXCEPT !.modes =
        [ i \in 1..Len(@) |->
            IF i <= s.nr_modes
            THEN [ @[i] EXCEPT !.width_mm = s.width_mm,
                               !.height_mm = s.height_mm ]
            ELSE @[i] ] ]

\* dcpep_process_chunks by the key: e the modes, d the attributes
dcpep_process_chunks_key(s, req, p, key, e, d) ==
        IF ~s.chunks.alloc THEN [ s |-> s, ret |-> FALSE ]
        ELSE IF p.ret # 0 THEN [ s |-> s, ret |-> FALSE ]
        ELSE IF key = K_TimingElements
        THEN IF e.err # 0
             THEN [ s |-> [ s EXCEPT !.modes = << >>, !.nr_modes = 0,
                                     !.modes_len = 0 ],
                    ret |-> FALSE ]
             ELSE [ s |-> [ s EXCEPT !.modes = e.modes,
                                     !.nr_modes = e.count,
                                     !.modes_len = e.len,
                                     !.ub = @ \cup Undefined("read", e.uninit) ],
                    ret |-> TRUE ]
        ELSE IF key = K_DisplayAttributes
        THEN IF d.ret # 0 THEN [ s |-> s, ret |-> FALSE ]
             ELSE [ s |-> dcp_set_dimensions(
                            [ s EXCEPT !.width_mm = d.width_mm,
                                       !.height_mm = d.height_mm ]),
                    ret |-> TRUE ]
        ELSE [ s |-> s, ret |-> TRUE ]

\* dcpep_process_chunks after parse
dcpep_process_chunks_parsed(s, req, p) ==
    dcpep_process_chunks_key(s, req, p, CStr(req.key),
        enumerate_modes(p.ctx, s.nr_modes, req.allocated, req.j, s.width_mm,
                        s.height_mm, s.notch_height),
        parse_display_attributes(p.ctx, s.width_mm, s.height_mm))

(* dcpep_process_chunks.  modes holds the entries of dcp->modes, none when *)
(* it is NULL; req.allocated is whether kmalloc_array finds the memory and *)
(* req.j what an unassigned local reads as.  The size of the transfer is   *)
(* below 2^16 when the buffer was allocated.                               *)
dcpep_process_chunks(s, req) ==
    dcpep_process_chunks_parsed(s, req,
                                parse(s.chunks.data, s.chunks.length.lo))

\* the reply of dcpep_cb_prop_end after dcpep_process_chunks
dcpep_cb_prop_end_reply(s, req, resp) ==
        [ s |-> [ resp.s EXCEPT !.chunks.alloc = FALSE, !.chunks.data = <<>> ],
          ret |-> IF resp.ret THEN 1 ELSE 0 ]

\* the reply that leaves the buffer of a failed transfer
dcpep_cb_prop_end_keeps_reply(s, req, resp) ==
        [ s |-> IF resp.ret
                THEN [ resp.s EXCEPT !.chunks.alloc = FALSE,
                                     !.chunks.data = <<>> ]
                ELSE resp.s,
          ret |-> IF resp.ret THEN 1 ELSE 0 ]

dcpep_cb_prop_end_keeps(s, req) ==
    dcpep_cb_prop_end_keeps_reply(s, req, dcpep_process_chunks(s, req))

dcpep_cb_prop_end(s, req) ==
    dcpep_cb_prop_end_reply(s, req, dcpep_process_chunks(s, req))

(* The table of memory descriptors.  memdesc_map holds the indices whose  *)
(* bit is set, memdesc[id].buf tells that buf is not NULL, and             *)
(* memdesc_wild holds the indices behind the bitmap and the table that     *)
(* were written.                                                           *)
DCP_MAX_MAPPINGS == 128

find_first_zero_bit(map, size) ==
    LET zero == (0 .. (size - 1)) \ map
    IN  IF zero = {} THEN size
        ELSE CHOOSE i \in zero : \A k \in zero : i <= k

\* a u64 as its 8 bytes, the lowest first
U64(x) == Bytes(x, 8)

\* the sum of two u64, modulo 2^64
u64_add(a, b) == Normalize([ k \in 1..8 |-> a[k] + b[k] ])

\* a <= b for two numbers of as many bytes each
RECURSIVE bytes_le(_, _, _)
bytes_le(a, b, k) ==
    IF k = 0 THEN TRUE
    ELSE IF a[k] # b[k] THEN a[k] < b[k]
    ELSE bytes_le(a, b, k - 1)

u64_le(a, b) == bytes_le(a, b, 8)

\* ALIGN(x, 4096) of a u64: (x + 4095) & ~4095, modulo 2^64
ALIGN_PAGE(x) ==
    [ Plus(x, 4095) EXCEPT ![1] = 0, ![2] = @ - (@ % 16) ]

NoMemDescriptor == [ size |-> 0, buf |-> FALSE, dva |-> 0, reg |-> U64(0) ]

(* dcpep_cb_allocate_buffer: req.buf is whether dma_alloc_coherent finds   *)
(* the memory and req.dva the address it gives                             *)
dcpep_cb_allocate_buffer(s, req) ==
    LET dva_size == ALIGN(req.size, 4096)
        id == find_first_zero_bit(s.memdesc_map, DCP_MAX_MAPPINGS)
        dva == IF req.buf THEN req.dva ELSE s.memdesc[id].dva
    IN  IF id >= DCP_MAX_MAPPINGS
        THEN [ s |-> s,
               ret |-> [ paddr |-> 0, dva |-> 0, dva_size |-> 0,
                         mem_desc_id |-> 0 ] ]
        ELSE [ s |-> [ s EXCEPT
                         !.memdesc_map = @ \cup {id},
                         !.memdesc[id] = [ @ EXCEPT !.size = dva_size,
                                                    !.buf = req.buf,
                                                    !.dva = dva ] ],
               ret |-> [ paddr |-> 0, dva |-> dva, dva_size |-> dva_size,
                         mem_desc_id |-> id ] ]

dcpep_cb_release_mem_desc(s, id) ==
    IF id >= DCP_MAX_MAPPINGS THEN [ s |-> s, ret |-> 0 ]
    ELSE IF id \notin s.memdesc_map THEN [ s |-> s, ret |-> 0 ]
    ELSE [ s |-> [ s EXCEPT
                     !.memdesc_map = @ \ {id},
                     !.memdesc[id] =
                         IF @.buf THEN [ @ EXCEPT !.buf = FALSE, !.size = 0 ]
                         ELSE [ @ EXCEPT !.reg = U64(0), !.size = 0 ] ],
           ret |-> 1 ]

\* is_disp_register: start and end are u64, as the bounds of a resource
is_disp_register(s, start, end) ==
    \E i \in 1..Len(s.disp_registers) :
        /\ u64_le(s.disp_registers[i].start, start)
        /\ u64_le(end, s.disp_registers[i].end)

\* the last byte of the range: the int size is converted to u64
map_physical_end(paddr, size) == u64_add(u64_add(paddr, U64(size)), U64(-1))

\* `int size = ALIGN(req->size, 4096)`: the low 32 bits of the u64, signed
map_physical_size(req) == s32(ALIGN_PAGE(req.size))

(* dcpep_cb_map_physical: the index that find_first_zero_bit gives is used *)
(* as it is, also when it is the size of the bitmap: set_bit and the two   *)
(* stores then write behind the bitmap and behind the table.  req.dva is   *)
(* what dma_map_resource gives.                                            *)
dcpep_cb_map_physical(s, req) ==
    LET size == map_physical_size(req)
        id == find_first_zero_bit(s.memdesc_map, DCP_MAX_MAPPINGS)
        resp == [ dva |-> req.dva, dva_size |-> size, mem_desc_id |-> id ]
    IN  IF ~is_disp_register(s, req.paddr, map_physical_end(req.paddr, size))
        THEN [ s |-> s,
               ret |-> [ dva |-> 0, dva_size |-> 0, mem_desc_id |-> 0 ] ]
        ELSE IF id \in DOMAIN s.memdesc
        THEN [ s |-> [ s EXCEPT
                         !.memdesc_map = @ \cup {id},
                         !.memdesc[id] = [ @ EXCEPT !.size = size,
                                                    !.reg = req.paddr ] ],
               ret |-> resp ]
        ELSE [ s |-> [ s EXCEPT !.memdesc_wild = @ \cup {id},
                                !.ub = @ \cup {"write"} ],
               ret |-> resp ]

(* TRAMPOLINE_INOUT: the handler's value is stored at out *)
trampoline_inout(r, out) ==
    [ s |-> [ r.s EXCEPT !.shmem = Store(r.s.shmem, out, [u8 |-> r.ret]) ],
      ret |-> TRUE ]

(* dcpep_cb_handlers[]: the entries the model follows; "NULL" elsewhere *)
dcpep_cb_handlers(tag) ==
    CASE tag = 0 -> "trampoline_true"
      [] tag = 2 -> "trampoline_nop"
      [] tag = 100 -> "iomfbep_cb_match_pmu_service"
      [] tag = 116 -> "dcpep_cb_boot_1"
      [] tag = 122 -> "trampoline_prop_start"
      [] tag = 123 -> "trampoline_prop_chunk"
      [] tag = 124 -> "trampoline_prop_end"
      [] tag = 206 -> "iomfbep_cb_match_pmu_service_2"
      [] tag = 207 -> "iomfbep_cb_match_backlight_service"
      [] tag = 451 -> "trampoline_allocate_buffer"
      [] tag = 452 -> "trampoline_map_physical"
      [] tag = 456 -> "trampoline_release_mem_desc"
      [] tag = 576 -> "trampoline_hotplug"
      [] tag = 589 -> "trampoline_swap_complete"
      [] OTHER -> "NULL"

(* dcpep_cb_swap_complete: ignore_swap_complete is never set, so the       *)
(* notification is always made                                             *)
dcpep_cb_swap_complete(s) == dcp_drm_crtc_vblank(s)

(* dcpep_cb_hotplug, with a connector linked *)
dcpep_cb_hotplug(s, connected) ==
    LET s1 == IF connected = 0
              THEN schedule_vblank([ s EXCEPT !.valid_mode = FALSE,
                                              !.unplugged = Len(s.wait) ])
              ELSE s
    IN  IF s.main_display THEN s
        ELSE IF s1.connected # (connected # 0)
             THEN [ s1 EXCEPT !.connected = (connected # 0),
                              !.valid_mode = FALSE ]
             ELSE s1

(* Run a handler: the state it leaves and the bool it returns *)
RunHandler(s, h, req, out, o) ==
    CASE h = "trampoline_true" ->
           [ s |-> [ s EXCEPT !.shmem = Store(s.shmem, out, [u8 |-> 1]) ],
             ret |-> TRUE ]
      [] h = "trampoline_nop" -> [ s |-> s, ret |-> TRUE ]
      [] h = "trampoline_prop_start" ->
           trampoline_inout(dcpep_cb_prop_start(s, req.length, req.allocated), out)
      [] h = "trampoline_prop_chunk" ->
           trampoline_inout(dcpep_cb_prop_chunk(s, req), out)
      [] h = "trampoline_prop_end" ->
           trampoline_inout(dcpep_cb_prop_end(s, req), out)
      [] h = "trampoline_allocate_buffer" ->
           trampoline_inout(dcpep_cb_allocate_buffer(s, req), out)
      [] h = "trampoline_map_physical" ->
           trampoline_inout(dcpep_cb_map_physical(s, req), out)
      [] h = "trampoline_release_mem_desc" ->
           trampoline_inout(dcpep_cb_release_mem_desc(s, req), out)
      [] h = "trampoline_hotplug" -> [ s |-> dcpep_cb_hotplug(s, req), ret |-> TRUE ]
      [] h = "trampoline_swap_complete" ->
           [ s |-> dcpep_cb_swap_complete(s), ret |-> TRUE ]
      [] h = "dcpep_cb_boot_1" ->
           [ s |-> dcp_push(s, FALSE, "dcpep_set_create_dfb", 0, "boot_1_5", 0, o),
             ret |-> FALSE ]
      [] h = "iomfbep_cb_match_pmu_service" ->
           [ s |-> dcp_push(s, FALSE, "iomfbep_a358_vi_set_temperature_hint", 0,
                            "complete_vi_set_temperature_hint", 0, o),
             ret |-> FALSE ]
      [] h = "iomfbep_cb_match_pmu_service_2" ->
           [ s |-> dcp_push(s, FALSE, "iomfbep_a131_pmu_service_matched", 0,
                            "complete_pmu_service_matched", out, o),
             ret |-> FALSE ]
      [] h = "iomfbep_cb_match_backlight_service" ->
           [ s |-> dcp_push(s, FALSE, "iomfbep_a132_backlight_service_matched", 0,
                            "complete_backlight_service_matched", out, o),
             ret |-> FALSE ]

(* dcpep_handle_cb: hdr is the packet header the firmware wrote at data *)
\* The end of dcpep_handle_cb: the handler r.ret tells whether to ack now
dcpep_handle_cb_ack(r, context, depth) ==
    IF r.ret
    THEN dcp_ack(r.s, context)
    ELSE [ r.s EXCEPT !.deferred =
             Append(@, [ context |-> context, depth |-> depth ]) ]

dcpep_handle_cb(s, context, hdr, length, offset, o) ==
    LET tag == dcp_parse_tag(hdr.tag)
        cn == dcp_get_channel(context)
        c == s.ch[cn]
        data == dcp_channel_offset(context) + offset
        in == data + HeaderSize
        out == in + hdr.in_len
        pd == dcp_push_depth(c.depth)
        depth == pd.ret
        inb == depth \in Slots
        endv == (offset + ALIGN(length, DCP_PACKET_ALIGNMENT)) % U16
        c2 == IF inb
              THEN [ c EXCEPT !.depth = pd.depth,
                              !.output[depth] = out,
                              !.end[depth] = endv ]
              ELSE [ c EXCEPT !.depth = IF o.hit THEN endv % U8 ELSE pd.depth ]
        s1 == [ s EXCEPT !.shmem = IF hdr.out_len # 0
                                   THEN Store(s.shmem, out, [zero |-> hdr.out_len])
                                   ELSE s.shmem ]
        s2 == [ s1 EXCEPT !.ch[cn] = c2,
                          !.packets[cn] =
                              IF inb THEN PacketAt(@, depth, offset, length, FALSE)
                              ELSE @,
                          !.ub = s.ub \cup Undefined("write", ~inb) ]
    IN  IF tag < 0 \/ tag >= DCPEP_MAX_CB \/ dcpep_cb_handlers(tag) = "NULL"
        THEN s
        ELSE dcpep_handle_cb_ack(
                 RunHandler(s2, dcpep_cb_handlers(tag), hdr.req, out, o),
                 context, c.depth)

(* dcpep_handle_ack up to the call of the continuation: the pop, and the  *)
(* continuation and cookie taken out of the slot                           *)
dcpep_handle_ack_take(s, context, o) ==
    LET cn == dcp_get_channel(context)
        c == s.ch[cn]
        depth == dcp_pop_depth(c.depth)
        inb == depth \in Slots
        c2 == IF inb
              THEN [ c EXCEPT !.depth = depth,
                              !.callbacks[depth] = "NULL",
                              !.cookies[depth] = 0 ]
              ELSE [ c EXCEPT !.depth = depth ]
    IN  [ cb |-> IF inb THEN c.callbacks[depth] ELSE o.rcb,
          cookie |-> IF inb THEN c.cookies[depth] ELSE 0,
          s |-> [ s EXCEPT !.ch[cn] = c2,
                           !.ub = s.ub \cup Undefined("read", ~inb)
                                      \cup Undefined("write", ~inb) ] ]

(* dcpep_handle_ack: resp is the response the firmware wrote behind the input *)
\* The end of dcpep_handle_ack: the continuation t.cb that was taken runs
dcpep_handle_ack_call(t, resp, o) ==
    IF t.cb # "NULL" THEN Invoke(t.s, t.cb, resp, t.cookie, o) ELSE t.s

dcpep_handle_ack(s, context, resp, o) ==
    IF dcp_get_channel(context) = "NULL" THEN s
    ELSE dcpep_handle_ack_call(dcpep_handle_ack_take(s, context, o), resp, o)

(* dcpep_got_msg: a MSG doorbell; m.hdr and m.resp are what the firmware     *)
(* left in the shared buffer at the offset the doorbell names                *)
dcpep_got_msg(s, m, o) ==
    IF dcp_channel_offset(m.context) < 0 THEN s
    ELSE IF m.ack THEN dcpep_handle_ack(s, m.context, m.resp, o)
    ELSE dcpep_handle_cb(s, m.context, m.hdr, m.length, m.offset, o)

(* iomfb_recv_msg *)
iomfb_recv_msg(s, m, o) ==
    IF m.type = "INITIALIZED"
    THEN dcp_push(s, FALSE, "dcpep_start_signal", 0, "dcp_started", 0, o)
    ELSE IF m.type = "MSG" THEN dcpep_got_msg(s, m, o)
    ELSE s

(* dcp.c: an ack pops the call channel, ch_cmd for the contexts CMD and CB, *)
(* and runs the continuation of the slot, which it leaves in place          *)
dcp_c_handle_ack(s, context, resp, o) ==
    LET cn == IF context \in {DCP_CONTEXT_CMD, DCP_CONTEXT_CB} THEN "ch_cmd"
              ELSE IF context \in {DCP_CONTEXT_OOBCMD, DCP_CONTEXT_OOBCB}
                   THEN "ch_oobcmd"
              ELSE "NULL"
        c == s.ch[cn]
        depth == dcp_pop_depth(c.depth)
        inb == depth \in Slots
        cb == IF inb THEN c.callbacks[depth] ELSE o.rcb
        cookie == IF inb THEN c.cookies[depth] ELSE 0
        s1 == [ s EXCEPT !.ch[cn].depth = depth,
                         !.ub = s.ub \cup Undefined("read", ~inb) ]
    IN  IF cn = "NULL" THEN s
        ELSE IF cb # "NULL" THEN Invoke(s1, cb, resp, cookie, o) ELSE s1

(* dcp.c dcp_got_msg, for INITIALIZED and for the acks of the firmware *)
dcp_got_msg(s, m, o) ==
    IF m.type = "INITIALIZED"
    THEN dcp_push(s, FALSE, "dcpep_start_signal", 0, "dcp_c_started", 0, o)
    ELSE IF m.type = "MSG" /\ m.ack
         THEN dcp_c_handle_ack(s, m.context, m.resp, o)
    ELSE s

---------------------------------------------------------------------------
(* Host entry points *)

(* dcp_poweron, up to its wait for the cookie; it returns at once when     *)
(* the cookie cannot be allocated.  dcp_poweron_wait is what follows the   *)
(* wait, whether it timed out or not.                                      *)
dcp_poweron_calls(s, cookie, o) ==
    dcp_push(IF s.main_display
             THEN dcp_push(s, FALSE, "dcpep_set_display_device", 0,
                           "dcp_on_final", cookie, o)
             ELSE dcp_push(s, FALSE, "dcpep_set_display_device", 2,
                           "dcp_on_set_parameter", cookie, o),
             TRUE, "dcpep_set_power_state", 1, "NULL", 0, o)

dcp_poweron_cookie(s, o) ==
    dcp_poweron_calls([ s EXCEPT !.pon_pc = "wait", !.pon_cookie = Len(s.wait) ],
                      Len(s.wait), o)

dcp_poweron(s, allocated, o) ==
    IF allocated THEN dcp_poweron_cookie(kzalloc_cookie(s), o) ELSE s

dcp_poweron_wait(s) ==
    kref_put([ s EXCEPT !.pon_pc = "idle", !.pon_cookie = 0 ], s.pon_cookie,
             "caller")

(* iomfb_shutdown *)
iomfb_shutdown(s, o) ==
    dcp_push([ s EXCEPT !.active = FALSE ], FALSE, "dcpep_set_power_state", 0,
             "NULL", 0, o)

(* dcp_poweroff blocks twice: for the clear swap (dcp_poweroff is the part *)
(* before that wait) and for the power state.  dcp_poweroff_wait is what   *)
(* follows a wait, timeout telling that it returned 0; allocated tells     *)
(* whether kzalloc of the cookie needed next succeeds.                     *)
dcp_poweroff_swap(s, o) ==
    dcp_push([ s EXCEPT !.swap_id = 0, !.poff_pc = "swap",
                        !.poff_cookie = Len(s.wait) ], FALSE,
             "dcpep_swap_start", 0, "dcp_swap_clear_started", Len(s.wait), o)

dcp_poweroff(s, allocated, o) ==
    IF ~allocated THEN s ELSE dcp_poweroff_swap(kzalloc_cookie(s), o)

dcp_poweroff_power(s, o) ==
    dcp_push([ s EXCEPT !.poff_pc = "power", !.poff_cookie = Len(s.wait) ],
             FALSE, "dcpep_set_power_state", 0,
             "complete_set_powerstate", Len(s.wait), o)

dcp_poweroff_put(s, was, timeout, allocated, o) ==
    IF was = "power" THEN s
    ELSE IF timeout THEN [ s EXCEPT !.crashed = TRUE ]
    ELSE IF ~allocated THEN s
    ELSE dcp_poweroff_power(kzalloc_cookie(s), o)

dcp_poweroff_wait(s, timeout, allocated, o) ==
    dcp_poweroff_put(kref_put([ s EXCEPT !.poff_pc = "idle", !.poff_cookie = 0 ],
                              s.poff_cookie, "caller"),
                     s.poff_pc, timeout, allocated, o)

(* dcp.c dcp_rtk_crashed: the transport reports that the DCP has crashed *)
dcp_rtk_crashed(s) == [ s EXCEPT !.crashed = TRUE ]

(* dcp_flush.  a is what the atomic state asks for: modeset               *)
(* (drm_atomic_crtc_needs_modeset), mode (lookup_mode finds one), cookie   *)
(* (kzalloc of the wait cookie succeeds), has_surface, steady (enable,     *)
(* active, no planes changed, no colour management changed) and queued (a  *)
(* plane drops its old framebuffer, whose id is queued).  The function     *)
(* blocks in wait_for_completion_timeout after it has pushed               *)
(* set_digital_out_mode: dcp_flush is the part before, dcp_flush_wait the  *)
(* part after, with timeout telling that the wait returned 0.              *)
dcp_flush_swap(s, a, o) ==
    IF ~a.has_surface /\ a.steady THEN schedule_vblank(s) ELSE do_swap(s, o)

\* dcp_flush from the allocation of its cookie to the wait
dcp_flush_modeset(s, a, o) ==
    dcp_push([ s EXCEPT !.flush_pc = "wait", !.flush_a = a,
                        !.flush_cookie = Len(s.wait) ], FALSE,
             "dcpep_set_digital_out_mode", s.mode,
             "complete_set_digital_out_mode", Len(s.wait), o)

dcp_flush_ignores_busy(s, a, o) == dcp_flush_swap(s, a, o)

dcp_flush(s, a, o) ==
    LET modeset == a.modeset \/ ~s.valid_mode
        s1 == [ s EXCEPT !.swap_id = 0,
                         !.swapped_out_fbs = IF a.queued # 0
                                             THEN Append(@, a.queued) ELSE @ ]
    IN  IF dcp_channel_busy(s.ch["ch_cmd"]) THEN schedule_vblank(s)
        ELSE IF ~modeset THEN dcp_flush_swap(s1, a, o)
        ELSE IF ~a.mode THEN schedule_vblank(s1)
        ELSE IF ~a.cookie THEN schedule_vblank([ s1 EXCEPT !.mode = a.found ])
        ELSE dcp_flush_modeset(kzalloc_cookie([ s1 EXCEPT !.mode = a.found ]),
                               a, o)

dcp_flush_put(s) ==
    kref_put([ s EXCEPT !.flush_pc = "idle", !.flush_cookie = 0 ],
             s.flush_cookie, "caller")

dcp_flush_wait_retracts(s, a, timeout, o) ==
    IF timeout
    THEN schedule_vblank([ dcp_flush_put(s) EXCEPT !.ch["ch_cmd"] = EmptyChannel ])
    ELSE dcp_flush_swap([ dcp_flush_put(s) EXCEPT !.valid_mode = TRUE ], a, o)

dcp_flush_wait(s, a, timeout, o) ==
    IF timeout THEN schedule_vblank(dcp_flush_put(s))
    ELSE dcp_flush_swap([ dcp_flush_put(s) EXCEPT !.valid_mode = TRUE ], a, o)

---------------------------------------------------------------------------
(* The state machine *)

(* What a dcp_flush is asked to do *)
\* struct dcp_set_digital_out_mode_req
NoMode == [ color_mode_id |-> 0, timing_mode_id |-> 0 ]

FlushArg(modeset, mode, cookie, has_surface, steady, queued) ==
    [ modeset |-> modeset, mode |-> mode, found |-> NoMode, cookie |-> cookie,
      has_surface |-> has_surface, steady |-> steady, queued |-> queued ]

NoFlush == FlushArg(FALSE, FALSE, FALSE, FALSE, FALSE, 0)

(* The display state of a device after probe.  vblanks, released, owed and *)
(* flush_at are history: the calls of dcp_drm_crtc_vblank, the framebuffers *)
(* put, the swaps the firmware accepted and has not yet reported complete,  *)
(* and the value of vblanks when dcp_flush was last called.  tx and rx are  *)
(* the caller thread and the receive thread where they are followed load by *)
(* store: the entry or continuation under way and the depth of ch_cmd the   *)
(* thread has loaded; acked counts the acks taken off ch_cmd; wild is       *)
(* history too: the copies of dcpep_cb_prop_chunk that left the buffer.     *)
(* The receive thread inside dcpep_cb_prop_end: pc is "run" between the    *)
(* stores of enumerate_modes, allocated and j belong to the request,       *)
(* count is what *count will reach, path the way enumerate_modes takes,    *)
(* old what the device held before; stage and src are where the firmware   *)
(* is in its transfer and the document it sends                            *)
NoParse ==
    [ pc |-> "idle", allocated |-> FALSE, j |-> 0, count |-> 0,
      path |-> "none",
      old |-> [ modes |-> << >>, nr_modes |-> 0, modes_len |-> 0 ],
      stage |-> "none",
      src |-> [ family |-> "none", entries |-> << >>, colors |-> << >>,
                where |-> "none", at |-> 0, value |-> "none" ] ]

DevInit ==
    [ valid_mode |-> FALSE, crashed |-> FALSE, connected |-> FALSE,
      vblank_wq |-> FALSE, vblanks |-> 0,
      swapped_out_fbs |-> <<>>, released |-> <<>>, swap_id |-> 0,
      flush_pc |-> "idle", flush_a |-> NoFlush, flush_cookie |-> 0,
      owed |-> 0, flush_at |-> -1, poff_pc |-> "idle", poff_cookie |-> 0,
      pon_pc |-> "idle", pon_cookie |-> 0, wait |-> << >>, mode |-> NoMode,
      packets |-> [ c \in Channels |-> NoPackets ],
      tx |-> [ pc |-> "idle", op |-> "none", a |-> NoFlush, seen |-> 0 ],
      rx |-> [ pc |-> "idle", cb |-> "NULL", cookie |-> 0, resp |-> 0,
               seen |-> 0 ],
      acked |-> 0,
      answered |-> {},
      chunks |-> [ length |-> U32(0, 0), alloc |-> FALSE, data |-> <<>> ],
      wild |-> {},
      modes |-> << >>, nr_modes |-> 0, width_mm |-> 0, height_mm |-> 0,
      notch_height |-> 0, modes_len |-> 0, parse |-> NoParse,
      unplugged |-> -1,
      memdesc_map |-> {}, memdesc_wild |-> {},
      memdesc |-> [ id \in 0 .. (DCP_MAX_MAPPINGS - 1) |-> NoMemDescriptor ],
      disp_registers |-> << [ start |-> U64(8192), end |-> U64(16383) ] >> ]

State ==
    [ ch |-> ch, sent |-> sent, shmem |-> shmem, active |-> active,
      main_display |-> main_display, invoked |-> invoked, pushed |-> pushed,
      deferred |-> deferred, ub |-> ub ] @@ dev

NoHdr == [ tag |-> <<0, 0, 0, 0>>, in_len |-> 0, out_len |-> 0, req |-> 0 ]

NoMsg ==
    [ type |-> "NONE", context |-> 0, ack |-> FALSE, offset |-> 0, length |-> 0,
      hdr |-> NoHdr, resp |-> 0 ]

(* The last input and the state it met *)
Event(kind, m) ==
    [ kind |-> kind, m |-> m,
      pre |-> [ ch |-> ch, shmem |-> shmem, nsent |-> Len(sent),
                ninvoked |-> Len(invoked), ndeferred |-> Len(deferred),
                dev |-> dev ] ]

Commit(r, e) ==
    /\ ch' = r.ch
    /\ sent' = r.sent
    /\ shmem' = r.shmem
    /\ active' = r.active
    /\ main_display' = r.main_display
    /\ invoked' = r.invoked
    /\ pushed' = r.pushed
    /\ deferred' = r.deferred
    /\ ub' = r.ub
    /\ dev' = [ f \in DOMAIN dev |-> r[f] ]
    /\ ev' = e

(* Take the step F; when it makes an undefined access, any outcome of it *)
Do(F(_), e) ==
    \E r \in {F(NoOracle)} :
        IF r.ub = {}
        THEN Commit(r, e)
        ELSE \E o \in Oracles : \E ro \in {F(o)} : Commit(ro, e)

Init ==
    /\ ch = [c \in Channels |-> EmptyChannel]
    /\ sent = <<>>
    /\ shmem = [a \in {} |-> 0]
    /\ active = FALSE
    /\ main_display = FALSE
    /\ invoked = <<>>
    /\ pushed = [c \in AllCallbacks |-> 0]
    /\ deferred = <<>>
    /\ dev = DevInit
    /\ ev = Event("none", NoMsg)
    /\ ub = {}
    /\ nMsgs = 0

(* What the firmware may put in a message *)
AckContexts ==
    {DCP_CONTEXT_CMD, DCP_CONTEXT_CB, DCP_CONTEXT_OOBCMD, DCP_CONTEXT_OOBCB,
     DCP_CONTEXT_ASYNC}
CbContexts == {DCP_CONTEXT_CB, DCP_CONTEXT_OOBCB, DCP_CONTEXT_ASYNC}
Resps == {0, 1}
CbOutLen == 4

(* Tags as the firmware writes them, tag[0] first: "D116" is '6' '1' '1' 'D' *)
TagD000 == <<48, 48, 48, 68>>
TagD100 == <<48, 48, 49, 68>>
TagD116 == <<54, 49, 49, 68>>
TagD206 == <<54, 48, 50, 68>>
KnownTags == {TagD000, TagD100, TagD116, TagD206}
(* No handler (D999), no marker, a byte below '0', a byte above '9' *)
UnknownTags ==
    { <<57, 57, 57, 68>>, <<54, 49, 49, 65>>, <<47, 49, 49, 68>>,
      <<54, 58, 49, 68>> }

CbMsg(context, tag, offset) ==
    [ type |-> "MSG", context |-> context, ack |-> FALSE, offset |-> offset,
      length |-> HeaderSize + CbOutLen,
      hdr |-> [ tag |-> tag, in_len |-> 0, out_len |-> CbOutLen, req |-> 0 ],
      resp |-> 0 ]

AckMsg(context, resp) ==
    [ NoMsg EXCEPT !.type = "MSG", !.context = context, !.ack = TRUE,
                   !.resp = resp ]

(* One input within the budget max: F is what the driver does with it *)
Input(max, F(_), e) ==
    /\ ub = {}
    /\ nMsgs < max
    /\ nMsgs' = nMsgs + 1
    /\ Do(F, e)

RecvMsg(max, kind, m) ==
    Input(max, LAMBDA o : iomfb_recv_msg(State, m, o), Event(kind, m))

(* The message m is received.  The comparison brings the record to its    *)
(* normal form once, before any step reads it.                            *)
Recv(max, kind, m) == RecvMsg(max, kind, IF m = m THEN m ELSE NoMsg)

RecvInitialized ==
    Recv(MaxMsgs, "init", [ NoMsg EXCEPT !.type = "INITIALIZED" ])

RecvAck == \E c \in AckContexts : Recv(MaxMsgs, "ack", AckMsg(c, 0))

RecvCallback ==
    \E c \in CbContexts, t \in KnownTags : Recv(MaxMsgs, "cb", CbMsg(c, t, 0))

RecvUnknownCallback ==
    \E c \in {DCP_CONTEXT_CB, DCP_CONTEXT_ASYNC}, t \in UnknownTags :
        Recv(MaxMsgs, "cb", CbMsg(c, t, 0))

(* A context that names no channel, a message type the host does not know *)
RecvOther ==
    \/ Recv(MaxMsgs, "other", CbMsg(1, TagD000, 0))
    \/ Recv(MaxMsgs, "other", [ NoMsg EXCEPT !.type = "SET_SHMEM" ])

DcpPoweron ==
    \E allocated \in BOOLEAN :
        Input(MaxMsgs, LAMBDA o : dcp_poweron(State, allocated, o),
              Event("dcp_poweron", NoMsg))

IomfbShutdown ==
    Input(MaxMsgs, LAMBDA o : iomfb_shutdown(State, o),
          Event("iomfb_shutdown", NoMsg))

(* Any firmware, any time for the host's calls *)
Next ==
    \/ RecvInitialized
    \/ RecvAck
    \/ RecvCallback
    \/ RecvUnknownCallback
    \/ RecvOther
    \/ DcpPoweron
    \/ IomfbShutdown

Spec == Init /\ [][Next]_vars

---------------------------------------------------------------------------
(* A caller that nests calls and a firmware that answers them last in,     *)
(* first out: up to DCP_MAX_CALL_DEPTH pushes through dcp_push, in band or  *)
(* out of band, each with the continuation "record" and its number as the   *)
(* cookie, then one ack per push on the context of its doorbell, the last   *)
(* push first.                                                              *)

LifoPushes == Len(sent)
LifoAcks == nMsgs - Len(sent)

LifoPush ==
    /\ ev.kind \in {"none", "push"}
    /\ LifoPushes < DCP_MAX_CALL_DEPTH
    /\ \E oob \in BOOLEAN :
          Input(2 * DCP_MAX_CALL_DEPTH,
                LAMBDA o : dcp_push(State, oob, "dcpep_set_power_state", 1,
                                    "record", LifoPushes + 1, o),
                Event("push", NoMsg))

LifoAck ==
    /\ LifoAcks < LifoPushes
    /\ Recv(2 * DCP_MAX_CALL_DEPTH, "ack",
            AckMsg(sent[LifoPushes - LifoAcks].context, 0))

NextLifo == LifoPush \/ LifoAck

SpecLifo == Init /\ [][NextLifo]_vars

LifoDone == ev.kind = "ack" /\ LifoAcks = LifoPushes

(* C1: after N nested pushes (N in 1..8) and N acks in LIFO order on the   *)
(* matching contexts every channel's depth is 0 and each continuation has   *)
(* been invoked exactly once, in reverse push order.                        *)
C1_LifoUnwinds ==
    LifoDone =>
        /\ \A c \in Channels : ch[c].depth = 0
        /\ Len(invoked) = LifoPushes
        /\ \A i \in 1 .. Len(invoked) :
              invoked[i] = <<"record", LifoPushes - i + 1>>
        /\ ub = {}

C1_Witness ==
    /\ LifoDone
    /\ LifoPushes = DCP_MAX_CALL_DEPTH
    /\ \E i \in 1 .. Len(sent) : sent[i].context = DCP_CONTEXT_CB
    /\ \E i \in 1 .. Len(sent) : sent[i].context = DCP_CONTEXT_OOBCB

---------------------------------------------------------------------------
(* What the last step did, read off the history variables *)

NewSent == SubSeq(sent, ev.pre.nsent + 1, Len(sent))
NewInvoked == SubSeq(invoked, ev.pre.ninvoked + 1, Len(invoked))
EvChannel == dcp_get_channel(ev.m.context)
EvDepth == ev.pre.ch[EvChannel].depth
Count(c) == Cardinality({ i \in 1 .. Len(invoked) : invoked[i][1] = c })
InBand == {DCP_CONTEXT_CMD, DCP_CONTEXT_CB}
OutOfBand == {DCP_CONTEXT_OOBCMD, DCP_CONTEXT_OOBCB}
HostEntries == {"init", "dcp_poweron", "iomfb_shutdown"}
Completions ==
    { "boot_done", "complete_vi_set_temperature_hint",
      "complete_pmu_service_matched", "complete_backlight_service_matched" }

(* C2: a continuation passed to dcp_push is not invoked inside dcp_push,   *)
(* is invoked at most once, and is invoked exactly when the ack for its own *)
(* packet is handled, duplicate and spurious acks included; its slot is     *)
(* cleared before it is called.                                             *)
C2_ContinuationOncePerAck ==
    /\ \A c \in AllCallbacks \ {"NULL"} : Count(c) <= pushed[c]
    /\ ev.kind # "ack" => NewInvoked = <<>>
    /\ ev.kind = "ack" =>
          IF EvDepth = 0 \/ (EvDepth - 1) \notin Slots
          THEN NewInvoked = <<>>
          ELSE LET cb == ev.pre.ch[EvChannel].callbacks[EvDepth - 1]
                   cookie == ev.pre.ch[EvChannel].cookies[EvDepth - 1]
               IN  /\ NewInvoked = IF cb = "NULL" THEN <<>> ELSE << <<cb, cookie>> >>
                   /\ NewSent = <<>> => ch[EvChannel].callbacks[EvDepth - 1] = "NULL"

(* C3: no host entry point (the INITIALIZED handler, dcp_poweron,          *)
(* iomfb_shutdown) sends a doorbell for a new call while the command        *)
(* channel it calls through is busy.                                        *)
C3_NoCallOnBusyChannel ==
    ev.kind \in HostEntries =>
        \A i \in 1 .. Len(NewSent) :
            /\ NewSent[i].context \in InBand =>
                  ~dcp_channel_busy(ev.pre.ch["ch_cmd"])
            /\ NewSent[i].context \in OutOfBand =>
                  ~dcp_channel_busy(ev.pre.ch["ch_oobcmd"])

(* C5: an ack, or the reply to a callback, on a channel at depth 0 is      *)
(* fatal: the depth does not wrap to 255 and no slot is read or invoked.    *)
C5_NoPopAtDepthZero ==
    /\ \A c \in Channels :
          ev.pre.ch[c].depth = 0 => ch[c].depth # U8 - 1
    /\ (ev.kind = "ack" /\ EvDepth = 0) =>
          /\ NewInvoked = <<>>
          /\ "read" \notin ub

(* C6: a push made from inside a firmware callback handler is sent with    *)
(* the Callback (or Out-of-band Callback) context, and a push made while no *)
(* firmware callback is in progress with the Command (or Out-of-band        *)
(* Command) context.                                                        *)
C6_ContextFollowsCallback ==
    \A i \in 1 .. Len(NewSent) :
        ~NewSent[i].ack =>
            /\ ev.kind = "cb" =>
                  NewSent[i].context \in {DCP_CONTEXT_CB, DCP_CONTEXT_OOBCB}
            /\ (/\ ev.kind # "cb"
                /\ \A c \in {"ch_cb", "ch_oobcb", "ch_async"} :
                      ev.pre.ch[c].depth = 0) =>
                  NewSent[i].context \in {DCP_CONTEXT_CMD, DCP_CONTEXT_OOBCMD}

(* C7: a callback whose handler returns false (D116, D100, D206, D207) is  *)
(* not acked when its handler returns; when the last call made on its       *)
(* behalf is acked, exactly one ack is sent, on the context the callback    *)
(* arrived on, and that channel's depth is what it was before the callback. *)
(* Stated for the runs with one such callback.                              *)
C7_DeferredAckOnArrivalContext ==
    /\ (ev.kind = "cb" /\ Len(deferred) > ev.pre.ndeferred) =>
          \A i \in 1 .. Len(NewSent) : ~NewSent[i].ack
    /\ (/\ ev.kind = "ack"
        /\ Len(deferred) = 1
        /\ NewInvoked # <<>>
        /\ NewInvoked[1][1] \in Completions) =>
          /\ NewSent = << dcpep_ack(deferred[1].context) >>
          /\ ch[dcp_get_channel(deferred[1].context)].depth = deferred[1].depth

(* C9: a callback whose tag does not parse or has no handler is dropped:   *)
(* no doorbell, no change of any channel, no write to the shared buffer.    *)
C9_UnknownCallbackDropped ==
    (ev.kind = "cb" /\ ev.m.hdr.tag \in UnknownTags) =>
        /\ NewSent = <<>>
        /\ ch = ev.pre.ch
        /\ shmem = ev.pre.shmem
        /\ NewInvoked = <<>>

C9_Witness ==
    /\ ev.kind = "cb"
    /\ ev.m.hdr.tag \in UnknownTags
    /\ EvDepth > 0
    /\ ch = ev.pre.ch
    /\ DOMAIN shmem # {}

---------------------------------------------------------------------------
(* A firmware that nests its callbacks: callbacks that are answered at     *)
(* once (D000) and callbacks that are answered later (D116) on the callback *)
(* and the asynchronous context, and acks of calls that are outstanding.    *)

DeepCallback ==
    \E c \in {DCP_CONTEXT_CB, DCP_CONTEXT_ASYNC}, t \in {TagD000, TagD116} :
        Recv(MaxDeep, "cb", CbMsg(c, t, 0))

DeepAck ==
    \E c \in {DCP_CONTEXT_CMD, DCP_CONTEXT_CB} :
        /\ dcp_channel_busy(ch[dcp_get_channel(c)])
        /\ Recv(MaxDeep, "ack", AckMsg(c, 0))

NextDeep == DeepCallback \/ DeepAck

SpecDeep == Init /\ [][NextDeep]_vars

(* C4: no channel's depth exceeds DCP_MAX_CALL_DEPTH and no slot array is   *)
(* written at an index of 8 or more, however deep the firmware nests.       *)
C4_DepthWithinStack ==
    /\ \A c \in Channels : ch[c].depth <= DCP_MAX_CALL_DEPTH
    /\ "write" \notin ub

(* C8: for a callback whose handler returns true dcpep_handle_cb sends      *)
(* exactly one doorbell, an ack of length 0 on the callback's context, and  *)
(* leaves the channel's depth as it found it.                               *)
C8_ImmediateAck ==
    (ev.kind = "cb" /\ ev.m.hdr.tag = TagD000) =>
        /\ NewSent = << dcpep_ack(ev.m.context) >>
        /\ NewSent[1].ack /\ NewSent[1].length = 0
        /\ ch[EvChannel].depth = EvDepth

---------------------------------------------------------------------------
(* The boot conversation: the firmware announces itself once, answers the  *)
(* start signal with D116 (and with callbacks that are answered at once),   *)
(* and acks a call only on a channel whose innermost entry is a call of the *)
(* host.                                                                    *)

BootInitialized ==
    /\ pushed["dcp_started"] = 0
    /\ Recv(MaxBoot, "init", [ NoMsg EXCEPT !.type = "INITIALIZED" ])

BootCallback ==
    /\ pushed["dcp_started"] > 0
    /\ \/ /\ pushed["boot_1_5"] = 0
          /\ Recv(MaxBoot, "cb", CbMsg(DCP_CONTEXT_CB, TagD116, 0))
       \/ Recv(MaxBoot, "cb", CbMsg(DCP_CONTEXT_CB, TagD000, 64))

BootAck ==
    \E c \in {DCP_CONTEXT_CMD, DCP_CONTEXT_CB}, r \in Resps :
        LET q == ch[dcp_get_channel(c)]
        IN  /\ dcp_channel_busy(q)
            /\ q.callbacks[q.depth - 1] # "NULL"
            /\ Recv(MaxBoot, "ack", AckMsg(c, r))

NextBoot == BootInitialized \/ BootCallback \/ BootAck

SpecBoot == Init /\ [][NextBoot]_vars

BootMethods ==
    << "dcpep_start_signal", "dcpep_set_create_dfb", "dcpep_create_default_fb",
       "dcpep_setup_video_limits", "dcpep_flush_supports_power",
       "dcpep_late_init_signal", "dcpep_set_display_refresh_properties" >>

(* The continuation each boot call is pushed with *)
BootContinuations ==
    << "dcp_started", "boot_1_5", "boot_2", "boot_3", "boot_4", "boot_5",
       "boot_done" >>

IsBootCall(d) == ~d.ack /\ \E k \in 1 .. 7 : d.method = BootMethods[k]
BootCalls == SelectSeq(sent, IsBootCall)
AckedSlot == ev.pre.ch[EvChannel].callbacks[EvDepth - 1]

(* C10: after INITIALIZED the boot calls go out in the order A401, A357,   *)
(* A443, A029, A463, A000, A460; each call after A357 is sent only when the *)
(* ack of the call before it is handled; D116 is acked only when the ack of *)
(* A460 is handled.                                                         *)
C10_BootOrder ==
    /\ Len(BootCalls) <= 7
    /\ \A k \in 1 .. Len(BootCalls) : BootCalls[k].method = BootMethods[k]
    /\ \A i \in 1 .. Len(NewSent), k \in 3 .. 7 :
          NewSent[i].method = BootMethods[k] =>
              ev.kind = "ack" /\ AckedSlot = BootContinuations[k - 1]
    /\ \A i \in 1 .. Len(NewSent) :
          (NewSent[i].ack /\ ~(ev.kind = "cb" /\ ev.m.hdr.tag = TagD000)) =>
              ev.kind = "ack" /\ AckedSlot = "boot_done"

C10_Witness ==
    /\ Len(BootCalls) = 7
    /\ ev.kind = "ack"
    /\ AckedSlot = "boot_done"
    /\ NewSent = << dcpep_ack(DCP_CONTEXT_CB) >>
    /\ ch["ch_cb"].depth = 0

---------------------------------------------------------------------------
(* SpecStart: the start-up conversation.  The firmware says INITIALIZED     *)
(* once, to iomfb.c or to dcp.c; it sends D116 and other callbacks while    *)
(* the start signal of iomfb.c is outstanding, and it acks outstanding      *)
(* calls in any order of channels, possibly never.                          *)

MaxStart == 8

StartedIomfb == pushed["dcp_started"] > 0
StartedDcpC == pushed["dcp_c_started"] > 0

StartInitialized ==
    /\ ~StartedIomfb /\ ~StartedDcpC
    /\ Recv(MaxStart, "init", [ NoMsg EXCEPT !.type = "INITIALIZED" ])

StartCallback ==
    /\ StartedIomfb
    /\ Count("dcp_started") = 0
    /\ \/ /\ pushed["boot_1_5"] = 0
          /\ Recv(MaxStart, "cb", CbMsg(DCP_CONTEXT_CB, TagD116, 0))
       \/ Recv(MaxStart, "cb", CbMsg(DCP_CONTEXT_CB, TagD000, 64))

StartAck ==
    /\ StartedIomfb
    /\ \E c \in {DCP_CONTEXT_CMD, DCP_CONTEXT_CB}, r \in Resps :
        LET q == ch[dcp_get_channel(c)]
        IN  /\ dcp_channel_busy(q)
            /\ q.callbacks[q.depth - 1] # "NULL"
            /\ Recv(MaxStart, "ack", AckMsg(c, r))

DcpGotMsg(m) ==
    Input(MaxStart, LAMBDA o : dcp_got_msg(State, m, o), Event("dcp_got_msg", m))

StartDcpC ==
    \/ /\ ~StartedIomfb /\ ~StartedDcpC
       /\ DcpGotMsg([ NoMsg EXCEPT !.type = "INITIALIZED" ])
    \/ /\ StartedDcpC
       /\ dcp_channel_busy(ch["ch_cmd"])
       /\ \E r \in Resps : DcpGotMsg(AckMsg(DCP_CONTEXT_CMD, r))

NextStart == StartInitialized \/ StartCallback \/ StartAck \/ StartDcpC

SpecStart == Init /\ [][NextStart]_vars

(* The continuations of the calls that bring the display up: the start-up   *)
(* chain of either engine and the boot chain that answers D116              *)
StartChain ==
    { "dcp_started", "init_2", "init_3", "res_is_main_display",
      "dcp_c_started", "dcp_c_init_3", "dcp_c_init_done" }
    \cup { BootContinuations[k] : k \in 1 .. 7 }

(* C11: the active flag is true only when the ack of every call of the      *)
(* start-up and boot chains has been delivered: while a call of the chain   *)
(* is sent and its ack is not handled, active stays false.                  *)
C11_ActiveNeedsEveryAck ==
    active => \A c \in StartChain : Count(c) = pushed[c]

---------------------------------------------------------------------------
(* SpecFlush: the display path.  The DRM layer calls dcp_flush, one call at *)
(* a time; the firmware acks the call outstanding on ch_cmd, reports the    *)
(* completion of every swap it accepted (D589) and reports hotplug (D576);  *)
(* the workqueue runs dcp_delayed_vblank.  A dcp_flush that waits for the   *)
(* modeset resumes when the completion is done or its wait times out.       *)

MaxFlush == 3

FbOld == 1

FlushArgs ==
    { FlushArg(FALSE, TRUE, TRUE, TRUE, FALSE, 0),
      FlushArg(FALSE, TRUE, TRUE, TRUE, FALSE, FbOld),
      FlushArg(TRUE, TRUE, TRUE, TRUE, FALSE, 0),
      FlushArg(TRUE, FALSE, TRUE, TRUE, FALSE, FbOld),
      FlushArg(TRUE, TRUE, FALSE, TRUE, FALSE, 0),
      FlushArg(FALSE, TRUE, TRUE, FALSE, TRUE, 0),
      FlushArg(FALSE, TRUE, TRUE, FALSE, FALSE, 0) }

FlushEvent(kind, a) == Event(kind, NoMsg) @@ [ a |-> a ]

TagD576 == <<54, 55, 53, 68>>
TagD589 == <<57, 56, 53, 68>>

(* A callback with an input and no output *)
CbMsgIn(context, tag, in_len, req) ==
    [ CbMsg(context, tag, 0) EXCEPT !.length = HeaderSize + in_len,
                                    !.hdr.in_len = in_len,
                                    !.hdr.out_len = 0, !.hdr.req = req ]

(* A step of the firmware or of a kernel thread that answers the host *)
Reply(F(_), e) == ub = {} /\ Do(F, e) /\ UNCHANGED nMsgs

FlushCallN(max) ==
    /\ dev.flush_pc = "idle"
    /\ \E a \in FlushArgs :
        Input(max,
              LAMBDA o : dcp_flush([ State EXCEPT !.flush_at = dev.vblanks ], a, o),
              FlushEvent("dcp_flush", a))

FlushCall == FlushCallN(MaxFlush)

FlushWait ==
    /\ dev.flush_pc = "wait"
    /\ Reply(LAMBDA o : dcp_flush_wait(State, dev.flush_a,
                                       ~dev.wait[dev.flush_cookie].done, o),
             FlushEvent("dcp_flush_wait", dev.flush_a))

(* The firmware accepts a swap when it answers swap_submit with ret = 0 *)
FlushAck ==
    /\ dcp_channel_busy(ch["ch_cmd"])
    /\ \E r \in Resps :
        LET m == AckMsg(DCP_CONTEXT_CMD, r)
            accepted == ch["ch_cmd"].callbacks[0] = "dcp_swapped" /\ r = 0
        IN  Reply(LAMBDA o : [ iomfb_recv_msg(State, m, o) EXCEPT
                                 !.owed = IF accepted THEN @ + 1 ELSE @ ],
                  Event("ack", m))

FlushSwapComplete ==
    /\ dev.owed > 0
    /\ LET m == CbMsgIn(DCP_CONTEXT_ASYNC, TagD589, 1750, 0)
       IN  Reply(LAMBDA o : [ iomfb_recv_msg(State, m, o) EXCEPT !.owed = @ - 1 ],
                 Event("cb", m))

VblankWork ==
    /\ dev.vblank_wq
    /\ Reply(LAMBDA o : dcp_delayed_vblank(State), Event("vblank_work", NoMsg))

FlushHotplugN(max) ==
    \E connected \in {0, 1} :
        Recv(max, "cb", CbMsgIn(DCP_CONTEXT_CB, TagD576, 8, connected))

FlushHotplug == FlushHotplugN(MaxFlush)

NextFlush ==
    FlushCall \/ FlushWait \/ FlushAck \/ FlushSwapComplete \/ VblankWork
    \/ FlushHotplug

SpecFlush == Init /\ [][NextFlush]_vars

(* The same with fewer calls, and fair: the firmware answers, the          *)
(* workqueue runs the work queued, a wait ends                             *)
MaxLive == 2

LiveCall == FlushCallN(MaxLive)
LiveHotplug == FlushHotplugN(MaxLive)

NextFlushLive ==
    LiveCall \/ LiveHotplug \/ FlushWait \/ FlushAck \/ FlushSwapComplete
    \/ VblankWork

SpecFlushLive ==
    /\ Init /\ [][NextFlushLive]_vars
    /\ WF_vars(FlushWait) /\ WF_vars(FlushAck) /\ WF_vars(FlushSwapComplete)
    /\ WF_vars(VblankWork)

(* C12: every dcp_flush is eventually followed by a vblank notification,    *)
(* whichever path it takes, when the firmware acks every call and reports   *)
(* the completion of every swap it accepted.                                *)
C12_FlushThenVblank ==
    (dev.vblanks = dev.flush_at) ~> (dev.vblanks > dev.flush_at)

C12_Witness ==
    /\ ev.kind = "cb" /\ ev.m.hdr.tag = TagD589
    /\ ev.pre.dev.vblanks = dev.flush_at /\ dev.vblanks > dev.flush_at
    /\ dev.valid_mode /\ dev.flush_a.modeset

FlushPath ==
    IF ev.kind # "dcp_flush" THEN "none"
    ELSE IF dcp_channel_busy(ev.pre.ch["ch_cmd"]) THEN "busy"
    ELSE IF (ev.a.modeset \/ ~ev.pre.dev.valid_mode) /\ ~ev.a.mode THEN "no mode"
    ELSE "other"

(* C13: a dcp_flush that finds the command channel busy, or needs a modeset *)
(* and finds no mode, sends no doorbell, leaves every channel and           *)
(* valid_mode as they were and schedules the fallback vblank.               *)
C13_BusyOrNoModeFallback ==
    FlushPath \in {"busy", "no mode"} =>
        /\ NewSent = <<>>
        /\ ch = ev.pre.ch
        /\ dev.valid_mode = ev.pre.dev.valid_mode
        /\ dev.vblank_wq

C13_Witness ==
    /\ FlushPath = "busy"
    /\ ev.pre.ch["ch_cmd"].callbacks[0] = "dcp_swap_started"
    /\ ev.a.modeset /\ ev.a.mode
    /\ dev.vblank_wq /\ ~ev.pre.dev.vblank_wq

IsSubmit(d) == ~d.ack /\ d.method = "dcpep_swap_submit"

(* The request a doorbell announces: the packet the host wrote at its offset *)
Packet(d) == shmem[dcp_tx_offset(d.context) + d.offset]

(* C14: swap_submit (A408) is sent only in the step that handles the ack of *)
(* swap_start (A407), and the swap id of the request is the id the firmware *)
(* returned in that reply.                                                  *)
C14_SubmitAfterStartAck ==
    \A i \in 1 .. Len(NewSent) :
        IsSubmit(NewSent[i]) =>
            /\ ev.kind = "ack"
            /\ AckedSlot = "dcp_swap_started"
            /\ Packet(NewSent[i]).data = ev.m.resp
            /\ dev.swap_id = ev.m.resp

C14_Witness ==
    /\ ev.kind = "ack" /\ ev.m.resp = 1
    /\ Len(NewSent) = 1 /\ IsSubmit(NewSent[1])
    /\ Packet(NewSent[1]).data = 1
    /\ ev.pre.dev.swap_id = 0

SwapCompleteReported == ev.kind = "cb" /\ ev.m.hdr.tag = TagD589
SwapFailureReported ==
    ev.kind = "ack" /\ AckedSlot = "dcp_swapped" /\ ev.m.resp # 0

(* C15: when the firmware reports swap completion (D589) and when the reply *)
(* to swap_submit reports failure, every framebuffer queued in              *)
(* swapped_out_fbs is released and one vblank is notified.                  *)
C15_ReleaseAndVblank ==
    SwapCompleteReported \/ SwapFailureReported =>
        /\ dev.swapped_out_fbs = <<>>
        /\ dev.released = ev.pre.dev.released \o ev.pre.dev.swapped_out_fbs
        /\ dev.vblanks = ev.pre.dev.vblanks + 1

(* The modeset wait of a dcp_flush ended in its timeout *)
ModesetTimedOut ==
    /\ ev.kind = "dcp_flush_wait"
    /\ ~ev.pre.dev.wait[ev.pre.dev.flush_cookie].done

(* Before the step, set_digital_out_mode was outstanding and no dcp_flush   *)
(* was waiting for it any more                                              *)
ModesetLate ==
    /\ ev.pre.dev.flush_pc = "idle"
    /\ ev.pre.ch["ch_cmd"].depth = 1
    /\ ev.pre.ch["ch_cmd"].callbacks[0] = "complete_set_digital_out_mode"

(* C16: a modeset wait that times out does not retract the call: ch_cmd     *)
(* stays busy with its slot as it was; until the late ack every dcp_flush   *)
(* takes the fallback vblank path and sends nothing; the late ack runs the  *)
(* continuation once and leaves ch_cmd idle.                                *)
C16_TimeoutKeepsCall ==
    /\ ModesetTimedOut =>
          /\ ch = ev.pre.ch /\ dcp_channel_busy(ch["ch_cmd"])
          /\ NewSent = <<>> /\ dev.vblank_wq
    /\ ModesetLate /\ ev.kind = "dcp_flush" =>
          /\ ch = ev.pre.ch /\ NewSent = <<>>
          /\ dev.vblank_wq /\ dev.flush_pc = "idle"
    /\ ModesetLate /\ ev.kind = "ack" =>
          /\ NewInvoked = << <<"complete_set_digital_out_mode",
                                ev.pre.ch["ch_cmd"].cookies[0]>> >>
          /\ ev.pre.ch["ch_cmd"].cookies[0] # 0
          /\ Count("complete_set_digital_out_mode")
                 = pushed["complete_set_digital_out_mode"]
          /\ ~dcp_channel_busy(ch["ch_cmd"])
          /\ ch["ch_cmd"].callbacks[0] = "NULL"
    /\ ModesetLate /\ ev.kind \notin {"dcp_flush", "ack"} =>
          ch["ch_cmd"] = ev.pre.ch["ch_cmd"]

C16_Witness ==
    /\ ModesetLate /\ ev.kind = "ack"
    /\ ~dcp_channel_busy(ch["ch_cmd"])
    /\ ~dev.valid_mode /\ dev.vblanks > 0

---------------------------------------------------------------------------
(* SpecCrash: the host entry points around a crash.  The DRM layer calls    *)
(* dcp_flush, dcp_poweron and dcp_poweroff one at a time, the transport may *)
(* report a crash, the firmware acks outstanding calls or lets a wait time  *)
(* out.                                                                     *)

MaxCrash == 2

HostIdle == dev.flush_pc = "idle" /\ dev.poff_pc = "idle"

CrashReport ==
    /\ ~dev.crashed
    /\ Input(MaxCrash, LAMBDA o : dcp_rtk_crashed(State),
             Event("dcp_rtk_crashed", NoMsg))

CrashFlush == HostIdle /\ FlushCallN(MaxCrash)

CrashPoweron ==
    /\ HostIdle
    /\ \E allocated \in BOOLEAN :
        Input(MaxCrash, LAMBDA o : dcp_poweron(State, allocated, o),
              Event("dcp_poweron", NoMsg))

CrashPoweroff ==
    /\ HostIdle
    /\ \E allocated \in BOOLEAN :
        Input(MaxCrash, LAMBDA o : dcp_poweroff(State, allocated, o),
              Event("dcp_poweroff", NoMsg))

PoweroffWait ==
    /\ dev.poff_pc # "idle"
    /\ \E allocated \in BOOLEAN :
        Reply(LAMBDA o : dcp_poweroff_wait(State,
                                           ~dev.wait[dev.poff_cookie].done,
                                           allocated, o),
              Event("dcp_poweroff_wait", NoMsg))

CrashAck ==
    \E c \in {DCP_CONTEXT_CMD, DCP_CONTEXT_CB, DCP_CONTEXT_OOBCMD} :
        /\ dcp_channel_busy(ch[dcp_get_channel(c)])
        /\ Reply(LAMBDA o : iomfb_recv_msg(State, AckMsg(c, 0), o),
                 Event("ack", AckMsg(c, 0)))

NextCrash ==
    CrashReport \/ CrashFlush \/ FlushWait \/ CrashPoweron \/ CrashPoweroff
    \/ PoweroffWait \/ CrashAck

SpecCrash == Init /\ [][NextCrash]_vars

(* C17: the crashed flag, once set, is never cleared, and no dcp_flush,     *)
(* dcp_poweron or dcp_poweroff called after it is set sends a doorbell.     *)
C17_CrashedFailsFast ==
    ev.pre.dev.crashed =>
        /\ dev.crashed
        /\ ev.kind \in {"dcp_flush", "dcp_poweron", "dcp_poweroff"} =>
              NewSent = <<>>

---------------------------------------------------------------------------
(* The caller thread and the receive thread, load by store.  dcp_flush,    *)
(* dcp_poweron and dcp_poweroff run on the thread of the atomic commit     *)
(* (apple_drv.c atomic_flush, atomic_enable, atomic_disable);              *)
(* iomfb_recv_msg runs on the thread of the transport (dcp.c recv_message) *)
(* and completes the cookies the callers sleep on.  No lock is taken on    *)
(* either side, so the loads and stores of ch_cmd.depth interleave: a      *)
(* thread loads the depth (dcp_channel_busy, dcp_call_context, the load of *)
(* the post-increment in dcp_push_depth) and stores later.  The firmware   *)
(* follows the protocol: it acks the calls it was sent, one ack each.      *)

MaxRace == 2

RaceArgs ==
    { FlushArg(TRUE, TRUE, TRUE, TRUE, FALSE, 0),
      FlushArg(FALSE, TRUE, TRUE, TRUE, FALSE, 0) }

RaceOps ==
    { [ op |-> "dcp_flush", a |-> a ] : a \in RaceArgs }
    \cup { [ op |-> op, a |-> NoFlush ] : op \in {"dcp_poweron", "dcp_poweroff"} }

CallOp(s, op, a, o) ==
    CASE op = "dcp_flush" -> dcp_flush([ s EXCEPT !.flush_at = s.vblanks ], a, o)
      [] op = "dcp_poweron" -> dcp_poweron(s, TRUE, o)
      [] op = "dcp_poweroff" -> dcp_poweroff(s, TRUE, o)

(* The state as a thread sees it that loaded the depth of ch_cmd earlier *)
Stale(s, seen) == [ s EXCEPT !.ch["ch_cmd"].depth = seen ]

(* What the thread leaves: r when it stored a depth, and the depth of s    *)
(* when it stored none.  The entries and continuations store at most once. *)
Late(s, r, seen) ==
    IF r.ch["ch_cmd"].depth = seen
    THEN [ r EXCEPT !.ch["ch_cmd"].depth = s.ch["ch_cmd"].depth ]
    ELSE r

(* The calls on the command channel the firmware has not yet answered *)
CmdCalls == { i \in 1..Len(sent) : sent[i].context = DCP_CONTEXT_CMD /\ ~sent[i].ack }
CmdOutstanding == Cardinality(CmdCalls) - dev.acked

RaceCall ==
    /\ dev.tx.pc = "idle" /\ HostIdle
    /\ \E c \in RaceOps :
        Input(MaxRace,
              LAMBDA o : [ State EXCEPT !.tx =
                             [ pc |-> "run", op |-> c.op, a |-> c.a,
                               seen |-> ch["ch_cmd"].depth ] ],
              FlushEvent("load", c.a))

RaceCallRun ==
    /\ dev.tx.pc = "run"
    /\ LET t == dev.tx
       IN  Reply(LAMBDA o : [ Late(State, CallOp(Stale(State, t.seen), t.op, t.a, o),
                                   t.seen)
                              EXCEPT !.tx.pc = "idle" ],
                 FlushEvent(t.op, t.a))

RaceAck ==
    /\ dev.rx.pc = "idle"
    /\ \E c \in {DCP_CONTEXT_CMD, DCP_CONTEXT_OOBCMD} :
        /\ IF c = DCP_CONTEXT_CMD THEN CmdOutstanding > 0
           ELSE dcp_channel_busy(ch["ch_oobcmd"])
        /\ Reply(LAMBDA o :
                   LET t == dcpep_handle_ack_take(State, c, o)
                   IN  [ t.s EXCEPT
                           !.rx = [ pc |-> "call", cb |-> t.cb,
                                    cookie |-> t.cookie, resp |-> 0,
                                    seen |-> t.s.ch["ch_cmd"].depth ],
                           !.acked = IF c = DCP_CONTEXT_CMD THEN @ + 1 ELSE @ ],
                 Event("ack", AckMsg(c, 0)))

RaceAckCall ==
    /\ dev.rx.pc = "call"
    /\ LET t == dev.rx
       IN  Reply(LAMBDA o :
                   [ Late(State,
                          IF t.cb # "NULL"
                          THEN Invoke(Stale(State, t.seen), t.cb, t.resp, t.cookie, o)
                          ELSE State,
                          t.seen)
                     EXCEPT !.rx.pc = "idle" ],
                 Event("call", NoMsg))

NextRace ==
    RaceCall \/ RaceCallRun \/ FlushWait \/ PoweroffWait \/ RaceAck
    \/ RaceAckCall

SpecRace == Init /\ [][NextRace]_vars

(* C18: with a caller and the receive handler running concurrently no      *)
(* update of the depth of ch_cmd is lost, the depth is the number of calls *)
(* on the channel the firmware has not answered, and no push stores its    *)
(* continuation in a slot that holds the one of an outstanding call.       *)
C18_DepthAtomic ==
    /\ ub = {} => ch["ch_cmd"].depth = CmdOutstanding
    /\ \A i \in Slots :
          ev.pre.ch["ch_cmd"].callbacks[i] # "NULL" =>
              ch["ch_cmd"].callbacks[i] \in
                  {"NULL", ev.pre.ch["ch_cmd"].callbacks[i]}

---------------------------------------------------------------------------
(* The chunked transfer: the firmware sends setDCPAVPropStart (D122),      *)
(* setDCPAVPropChunk (D123) and setDCPAVPropEnd (D124) on the callback     *)
(* channel, in any order and with any request.                             *)

MaxProp == 4

TagD122 == <<50, 50, 49, 68>>
TagD123 == <<51, 50, 49, 68>>
TagD124 == <<52, 50, 49, 68>>

Max32 == U32(U16 - 1, U16 - 1)
PropLengths == { U32(0, 0), U32(0, 1), U32(0, 2), Max32 }
ChunkOffsets == { U32(0, 0), U32(0, 1), U32(0, 3), Max32 }
ChunkLengths == { U32(0, 0), U32(0, 1), U32(0, 2), Max32 }

(* A callback with a request of in_len bytes and a u8 to answer with *)
PropMsg(tag, in_len, req) ==
    [ CbMsg(DCP_CONTEXT_CB, tag, 0) EXCEPT !.length = HeaderSize + in_len + 1,
                                           !.hdr.in_len = in_len,
                                           !.hdr.out_len = 1, !.hdr.req = req ]

(* devm_kzalloc finds no 4 GiB *)
PropStart ==
    \E length \in PropLengths, allocated \in BOOLEAN :
        /\ allocated => length.hi = 0
        /\ Recv(MaxProp, "cb",
                PropMsg(TagD122, 4,
                        [ length |-> length, allocated |-> allocated ]))

PropChunk ==
    \E offset \in ChunkOffsets, length \in ChunkLengths :
        Recv(MaxProp, "cb",
             PropMsg(TagD123, 4104,
                     [ offset |-> offset, length |-> length,
                       data |-> << 1, 1 >> ]))

PropEnd ==
    \E key \in {K_TimingElements, K_DisplayAttributes, K_ID} :
        Recv(MaxProp, "cb",
             PropMsg(TagD124, 64,
                     [ key |-> key, allocated |-> TRUE, j |-> 0 ]))

NextProp == PropStart \/ PropChunk \/ PropEnd

SpecProp == Init /\ [][NextProp]_vars

(* The u8 the handler of the last callback answered with *)
ReplyAt(in_len) ==
    shmem[dcp_channel_offset(DCP_CONTEXT_CB) + HeaderSize + in_len].u8

PropReply == ReplyAt(ev.m.hdr.in_len)

(* C19: a property-start that meets a transfer replies false and leaves    *)
(* its length and data as they are; one that meets none is accepted        *)
(* exactly when it leaves a transfer, which it does when the buffer can be *)
(* allocated, with the length of the request and a zeroed buffer; a        *)
(* property-end leaves no transfer whatever it replies; and nothing else   *)
(* starts or ends a transfer.                                              *)
C19_OneTransfer ==
    LET was == ev.pre.dev.chunks
        now == dev.chunks
        tag == ev.m.hdr.tag
        req == ev.m.hdr.req
    IN  ev.kind = "cb" =>
          /\ tag = TagD122 /\ was.alloc => PropReply = 0 /\ now = was
          /\ tag = TagD122 /\ ~was.alloc =>
                /\ now.alloc <=> PropReply = 1
                /\ req.allocated /\ req.length.hi = 0 =>
                      /\ now.alloc /\ now.length = req.length
                      /\ now.data = [i \in 1..req.length.lo |-> 0]
          /\ tag = TagD124 => ~now.alloc
          /\ tag \notin {TagD122, TagD124} => now.alloc = was.alloc

(* A start is accepted after a transfer that took a chunk was ended by an  *)
(* end whose parse failed                                                  *)
C19_Witness ==
    /\ ev.kind = "cb" /\ ev.m.hdr.tag = TagD122
    /\ (ev.m.context = DCP_CONTEXT_CB) /\ dev.chunks.alloc /\ PropReply = 1
    /\ 393216 + HeaderSize + 4104 \in DOMAIN shmem /\ ReplyAt(4104) = 1
    /\ 393216 + HeaderSize + 64 \in DOMAIN shmem /\ ReplyAt(64) = 0

(* C20: a property-chunk is copied only when offset + length, taken        *)
(* without wraparound, is at most the length of the transfer; else it      *)
(* replies false and leaves the buffer as it is; and no copy stores a byte *)
(* behind the buffer.                                                      *)
C20_ChunkInBounds ==
    LET was == ev.pre.dev.chunks
        req == ev.m.hdr.req
        fits == /\ was.alloc
                /\ ~u32_carry(req.offset, req.length)
                /\ u32_le(u32_add(req.offset, req.length), was.length)
    IN  /\ dev.wild = {}
        /\ ev.kind = "cb" /\ ev.m.hdr.tag = TagD123 =>
              /\ PropReply = 1 => fits
              /\ ~fits => PropReply = 0 /\ dev.chunks = was

----------------------------------------------------------------------------
(* Transfers of property dictionaries.  The firmware sends a start with    *)
(* the length of the encoding, the pieces of it in chunks, and the end     *)
(* with the key.  What it is sending (src), the size of its pieces (cut),  *)
(* their order (dir) and how many it has sent are carried by the request   *)
(* it sent last.                                                           *)

MaxBlob == 6

\* The keys and values of the dictionaries, in the order they are sent
DimensionPairs(act, total, front_porch, sync_width, precise_sync_rate) ==
    << <<K_Active, EncInt(act)>>, <<K_Total, EncInt(total)>>,
       <<K_FrontPorch, EncInt(front_porch)>>,
       <<K_SyncWidth, EncInt(sync_width)>>,
       <<K_PreciseSyncRate, EncInt(precise_sync_rate)>> >>

ColorModePairs(id, score, is_virtual) ==
    << <<K_Colorimetry, EncInt(1)>>, <<K_ID, EncInt(id)>>,
       <<K_IsVirtual, EncBool(is_virtual)>>, <<K_Score, EncInt(score)>> >>

ModePairs(horiz, vert, color_modes, id, score, is_virtual) ==
    << <<K_HorizontalAttributes, horiz>>, <<K_VerticalAttributes, vert>>,
       <<K_ColorModes, EncArray(color_modes)>>, <<K_ID, EncInt(id)>>,
       <<K_Score, EncInt(score)>>, <<K_IsVirtual, EncBool(is_virtual)>> >>

DisplayAttributesPairs(width_cm, height_cm) ==
    << <<K_MaxHorizontalImageSize, EncInt(width_cm)>>,
       <<K_MaxVerticalImageSize, EncInt(height_cm)>> >>

EncDimension(act, total, front_porch, sync_width, precise_sync_rate) ==
    EncDict(DimensionPairs(act, total, front_porch, sync_width,
                           precise_sync_rate))

EncColorMode(id, score, is_virtual) ==
    EncDict(ColorModePairs(id, score, is_virtual))

EncMode(horiz, vert, color_modes, id, score, is_virtual) ==
    EncDict(ModePairs(horiz, vert, color_modes, id, score, is_virtual))

EncDisplayAttributes(width_cm, height_cm) ==
    EncDict(DisplayAttributesPairs(width_cm, height_cm))

Hz60 == 60 * U16

Mode640 ==
    EncMode(EncDimension(640, 800, 16, 96, 0),
            EncDimension(480, 525, 10, 2, Hz60),
            << EncColorMode(3, 5, FALSE) >>, 1, 10, FALSE)

BadMagic(bytes) == [ bytes EXCEPT ![1] = 0 ]

(* What the firmware has to send *)
Blobs ==
    << [ key |-> K_DisplayAttributes,
         bytes |-> EncBlob(EncDisplayAttributes(30, 20)) ],
       [ key |-> K_TimingElements, bytes |-> EncBlob(EncArray(<< Mode640 >>)) ],
       [ key |-> K_TimingElements,
         bytes |-> BadMagic(EncBlob(EncArray(<< Mode640 >>))) ],
       [ key |-> K_TimingElements, bytes |-> EncBlob(Mode640) ],
       [ key |-> K_DisplayAttributes,
         bytes |-> BadMagic(EncBlob(EncDisplayAttributes(30, 20))) ] >>

Cuts == { 4096, 256, 24 }

Pieces(src, cut) == (Len(Blobs[src].bytes) + cut - 1) \div cut

\* the k-th piece, from 0
Piece(src, cut, k) ==
    LET bytes == Blobs[src].bytes
        upto == IF (k + 1) * cut < Len(bytes) THEN (k + 1) * cut ELSE Len(bytes)
    IN  [ offset |-> U32(0, k * cut), length |-> U32(0, upto - (k * cut)),
          data |-> SubSeq(bytes, (k * cut) + 1, upto) ]

Sending == ev.kind = "cb" /\ ev.m.hdr.tag \in {TagD122, TagD123}

BlobStart ==
    \E src \in DOMAIN Blobs, cut \in Cuts, dir \in {"up", "down"} :
        /\ ~dev.chunks.alloc
        /\ Recv(MaxBlob, "cb",
                PropMsg(TagD122, 4,
                        [ length |-> U32(0, Len(Blobs[src].bytes)),
                          allocated |-> TRUE, src |-> src, cut |-> cut,
                          dir |-> dir, sent |-> 0 ]))

BlobChunk ==
    /\ Sending /\ dev.chunks.alloc
    /\ LET was == ev.m.hdr.req
           n == Pieces(was.src, was.cut)
           k == IF was.dir = "up" THEN was.sent ELSE n - 1 - was.sent
       IN  /\ was.sent < n
           /\ Recv(MaxBlob, "cb",
                   PropMsg(TagD123, 4104,
                           Piece(was.src, was.cut, k)
                             @@ [ src |-> was.src, cut |-> was.cut,
                                  dir |-> was.dir, sent |-> was.sent + 1 ]))

BlobEnd ==
    /\ Sending /\ dev.chunks.alloc
    /\ LET was == ev.m.hdr.req
       IN  /\ was.sent = Pieces(was.src, was.cut)
           /\ \E allocated \in BOOLEAN :
                Recv(MaxBlob, "cb",
                     PropMsg(TagD124, 64,
                             [ key |-> Blobs[was.src].key,
                               allocated |-> allocated, j |-> 0,
                               src |-> was.src, cut |-> was.cut,
                               dir |-> was.dir, sent |-> was.sent ]))

NextBlob == BlobStart \/ BlobChunk \/ BlobEnd

SpecBlob == Init /\ [][NextBlob]_vars

\* The end of a transfer was the last callback
Ended == ev.kind = "cb" /\ ev.m.hdr.tag = TagD124

(* The same blob from the same state of the device in one chunk *)
SingleChunk(s, req) ==
    LET bytes == Blobs[req.src].bytes
        length == U32(0, Len(bytes))
        idle == [ s EXCEPT !.chunks = DevInit.chunks ]
        started == dcpep_cb_prop_start(idle, length, TRUE).s
        copied == dcpep_cb_prop_chunk(
                      started, [ offset |-> U32(0, 0), length |-> length,
                                 data |-> bytes ]).s
    IN  dcpep_cb_prop_end(copied, req)

(* C21: at the end of a transfer in chunks that cover the blob the buffer  *)
(* holds the bytes of the blob, and the reply, the dimensions and the      *)
(* modes of the device are those that the transfer of the blob in one      *)
(* chunk leaves.                                                           *)
C21_ChunkedIsSingle ==
    Ended =>
        LET req == ev.m.hdr.req
            one == SingleChunk([ ub |-> {} ] @@ ev.pre.dev, req)
        IN  /\ ev.pre.dev.chunks.data = Blobs[req.src].bytes
            /\ PropReply = one.ret
            /\ dev.modes = one.s.modes /\ dev.nr_modes = one.s.nr_modes
            /\ dev.width_mm = one.s.width_mm
            /\ dev.height_mm = one.s.height_mm

(* The dimensions came in three or more chunks that were sent last first *)
C21_Witness ==
    /\ Ended /\ PropReply = 1
    /\ ev.m.hdr.req.key = K_DisplayAttributes
    /\ Pieces(ev.m.hdr.req.src, ev.m.hdr.req.cut) >= 3
    /\ ev.m.hdr.req.dir = "down"
    /\ dev.width_mm = 300 /\ dev.height_mm = 200

(* C22: after a property-end whose parse fails, with the memory for the    *)
(* modes at hand, the modes of the device and their count are those from   *)
(* before the transfer.                                                    *)
C22_FailedParseKeepsModes ==
    Ended /\ PropReply = 0 /\ ev.m.hdr.req.allocated =>
        /\ dev.modes = ev.pre.dev.modes
        /\ dev.nr_modes = ev.pre.dev.nr_modes

----------------------------------------------------------------------------
(* The memory descriptors.  The firmware asks for buffers (D451), for      *)
(* mappings of display registers (D452) and for releases (D456).  The      *)
(* table starts empty or with the descriptors that a number of D451 have   *)
(* left in it.                                                             *)

MaxMem == 4

TagD451 == <<49, 53, 52, 68>>
TagD452 == <<50, 53, 52, 68>>
TagD456 == <<54, 53, 52, 68>>

AllocateReq(buf) == [ size |-> 4000, buf |-> buf, dva |-> 65536 ]

\* the device after n D451 that found their memory
Filled(n) ==
    [ f \in DOMAIN DevInit |->
        Iterate(LAMBDA s : dcpep_cb_allocate_buffer(s, AllocateReq(TRUE)).s,
                DevInit, n)[f] ]

Prefilled == { 0, DCP_MAX_MAPPINGS - 2 }

InitMem ==
    /\ ch = [c \in Channels |-> EmptyChannel]
    /\ sent = <<>>
    /\ shmem = [a \in {} |-> 0]
    /\ active = FALSE
    /\ main_display = FALSE
    /\ invoked = <<>>
    /\ pushed = [c \in AllCallbacks |-> 0]
    /\ deferred = <<>>
    /\ dev \in { Filled(n) : n \in Prefilled }
    /\ ev = Event("none", NoMsg)
    /\ ub = {}
    /\ nMsgs = 0

MemAllocate ==
    \E buf \in BOOLEAN :
        Recv(MaxMem, "cb", PropMsg(TagD451, 20, AllocateReq(buf)))

MemMapPhysical ==
    \E paddr \in {8192, 4096} :
        Recv(MaxMem, "cb",
             [ PropMsg(TagD452, 24,
                       [ paddr |-> U64(paddr), size |-> U64(4096),
                         dva |-> 131072 ])
               EXCEPT !.length = HeaderSize + 24 + 20, !.hdr.out_len = 20 ])

MemRelease ==
    \E id \in {0, DCP_MAX_MAPPINGS - 1, DCP_MAX_MAPPINGS, 2 * DCP_MAX_MAPPINGS} :
        Recv(MaxMem, "cb", PropMsg(TagD456, 4, id))

NextMem == MemAllocate \/ MemMapPhysical \/ MemRelease

SpecMem == InitMem /\ [][NextMem]_vars

AllLive == 0 .. (DCP_MAX_MAPPINGS - 1)

(* C23: with all 128 indices live D451 and D452 reply with a zeroed        *)
(* response and leave the bitmap and the table as they are, and no index   *)
(* of 128 or more is ever written in the bitmap or the table.              *)
C23_FullTableRefuses ==
    /\ dev.memdesc_wild = {}
    /\ ev.kind = "cb" /\ ev.m.hdr.tag \in {TagD451, TagD452}
         /\ ev.pre.dev.memdesc_map = AllLive =>
            /\ PropReply.dva_size = 0 /\ PropReply.mem_desc_id = 0
            /\ PropReply.dva = 0
            /\ dev.memdesc_map = ev.pre.dev.memdesc_map
            /\ dev.memdesc = ev.pre.dev.memdesc

(* C24: the index that D451 or D452 hands out was not live and is live     *)
(* from then on; only the release that names an index ends its life; a     *)
(* release of an index of 128 or more or of one that is not live replies 0 *)
(* and changes nothing, and a release of a live index replies 1 and frees  *)
(* that index and no other.                                                *)
C24_IndexLifetime ==
    LET was == ev.pre.dev
        tag == ev.m.hdr.tag
        id == ev.m.hdr.req
        same == /\ dev.memdesc_map = was.memdesc_map
                /\ dev.memdesc = was.memdesc
                /\ dev.memdesc_wild = was.memdesc_wild
    IN  ev.kind = "cb" =>
          /\ tag \in {TagD451, TagD452} /\ PropReply.dva_size # 0 =>
                /\ PropReply.mem_desc_id \notin was.memdesc_map
                /\ dev.memdesc_map =
                       was.memdesc_map \cup {PropReply.mem_desc_id}
          /\ tag \in {TagD451, TagD452} /\ PropReply.dva_size = 0 => same
          /\ tag = TagD456 /\ id \notin was.memdesc_map =>
                PropReply = 0 /\ same
          /\ tag = TagD456 /\ id \in was.memdesc_map =>
                /\ PropReply = 1
                /\ dev.memdesc_map = was.memdesc_map \ {id}
                /\ \A i \in AllLive \ {id} : dev.memdesc[i] = was.memdesc[i]
                /\ dev.memdesc[id].size = 0 /\ ~dev.memdesc[id].buf

----------------------------------------------------------------------------
(* The parser on encoded values.  The input is an array of n siblings of   *)
(* one kind; the parser reads the header, and then either skips the array  *)
(* or enters it and skips one sibling after the other.  ev holds the       *)
(* cursor, the value of the last operation and the siblings skipped.       *)

MaxSiblings == 50

Kinds ==
    { "int", "bool", "string0", "string1", "string6", "string8", "blob3",
      "array", "dictionary", "nested" }

\* five containers around two leaves
Nested ==
    EncArray(<<
      EncDict(<< << K_ID,
        EncArray(<<
          EncDict(<< << K_Score,
            EncArray(<< EncString(<<65>>), EncInt(1) >>) >> >>),
          EncBool(FALSE) >>) >> >>),
      EncString(K_Active) >>)

\* a value of the kind with n members when it is a container
Value(kind, n) ==
    CASE kind = "int" -> EncInt(n)
      [] kind = "bool" -> EncBool(TRUE)
      [] kind = "string0" -> EncString(<< >>)
      [] kind = "string1" -> EncString(<<65>>)
      [] kind = "string6" -> EncString(K_Active)
      [] kind = "string8" -> EncString(K_Active \o <<66, 67>>)
      [] kind = "blob3" -> EncData(<<1, 2, 3>>)
      [] kind = "array" -> EncArray([ i \in 1..n |-> EncString(<<65>>) ])
      [] kind = "dictionary" ->
           EncDict([ i \in 1..n |-> << K_ID, EncData(<<i>>) >> ])
      [] kind = "nested" -> Nested

SiblingsOf(in) == [ i \in 1..in.n |-> Value(in.kind, in.n) ]

BlobOf(in) == EncBlob(EncArray(SiblingsOf(in)))

\* where the encoder put the tag of the sibling k, from 0; the end for k = n
SiblingAt(in, k) == 8 + (k * Len(Value(in.kind, in.n)))

ParserEvent(op, in, ctx, ret, skipped) ==
    [ kind |-> "parser", op |-> op, in |-> in, ctx |-> ctx, ret |-> ret,
      skipped |-> skipped, m |-> NoMsg ]

InitSkip ==
    /\ ch = [c \in Channels |-> EmptyChannel]
    /\ sent = <<>>
    /\ shmem = [a \in {} |-> 0]
    /\ active = FALSE
    /\ main_display = FALSE
    /\ invoked = <<>>
    /\ pushed = [c \in AllCallbacks |-> 0]
    /\ deferred = <<>>
    /\ dev = DevInit
    /\ \E n \in 0..MaxSiblings, kind \in Kinds :
         LET in == [ n |-> n, kind |-> kind ]
         IN  ev = ParserEvent("none", in,
                              [ blob |-> BlobOf(in), len |-> Len(BlobOf(in)),
                                pos |-> 0 ], 0, 0)
    /\ ub = {}
    /\ nMsgs = 0

ParserStep(op, ctx, ret, skipped) ==
    /\ ev' = ParserEvent(op, ev.in, ctx, ret, skipped)
    /\ UNCHANGED << ch, sent, shmem, active, main_display, invoked, pushed,
                    deferred, ub, nMsgs, dev >>

SkipParse ==
    /\ ev.op = "none"
    /\ LET r == parse(ev.ctx.blob, ev.ctx.len)
       IN  ParserStep("parse", r.ctx, r.ret, 0)

SkipRoot ==
    /\ ev.op = "parse" /\ ev.ret = 0
    /\ LET r == skip(ev.ctx) IN ParserStep("skip_root", r.ctx, r.ret, 0)

SkipBegin ==
    /\ ev.op = "parse" /\ ev.ret = 0
    /\ LET it == iterator_begin(ev.ctx, FALSE)
       IN  ParserStep("begin", it.ctx, it.ret, 0)

SkipSibling ==
    /\ ev.op \in {"begin", "skip"} /\ ev.ret = 0 /\ ev.skipped < ev.in.n
    /\ LET r == skip(ev.ctx)
       IN  ParserStep("skip", r.ctx, r.ret, ev.skipped + 1)

NextSkip == SkipParse \/ SkipRoot \/ SkipBegin \/ SkipSibling

SpecSkip == InitSkip /\ [][NextSkip]_vars

(* The statement that skip leaves the cursor on the tag of the next        *)
(* sibling, and on the end of the encoding after the root                  *)
C25_SkipLandsOnTag ==
    ev.kind = "parser" =>
      /\ ev.op = "skip" =>
            ev.ret = 0 /\ ev.ctx.pos = SiblingAt(ev.in, ev.skipped)
      /\ ev.op = "skip_root" => ev.ret = 0 /\ ev.ctx.pos = ev.ctx.len

(* C25: skip of a well-formed value returns no error and leaves the cursor *)
(* at the end of the payload of the value, at most 3 bytes before the tag  *)
(* of the next sibling and at it once rounded up to a multiple of 4, so    *)
(* that the next read of a tag reads that tag; parse and skip of the root  *)
(* leave the cursor at the end of the encoding less the padding of the     *)
(* last payload.                                                           *)
C25_SkipLandsBeforeTag ==
    LET next == SiblingAt(ev.in, ev.skipped)
        tag == parse_tag(ev.ctx)
    IN  ev.kind = "parser" =>
          /\ ev.op = "skip" =>
                /\ ev.ret = 0
                /\ next - 3 <= ev.ctx.pos /\ ev.ctx.pos <= next
                /\ ALIGN(ev.ctx.pos, 4) = next
                /\ ev.skipped < ev.in.n =>
                      /\ ~tag.err /\ tag.ctx.pos = next + 4
                      /\ tag.tag = TagAt(ev.ctx, next)
          /\ ev.op = "skip_root" =>
                /\ ev.ret = 0
                /\ ev.ctx.len - 3 <= ev.ctx.pos /\ ev.ctx.pos <= ev.ctx.len
                /\ ALIGN(ev.ctx.pos, 4) = ev.ctx.len

(* Fifty strings of one byte were skipped, each leaving the cursor 3 bytes *)
(* before the next tag                                                     *)
C25_Witness ==
    /\ ev.kind = "parser" /\ ev.op = "skip" /\ ev.ret = 0
    /\ ev.in.kind = "string1" /\ ev.skipped = 50
    /\ ev.ctx.pos = ev.ctx.len - 3

----------------------------------------------------------------------------
(* The parser on any buffer: the encodings above and what is left of them  *)
(* when the buffer ends early.  Every operation may come at every time.    *)

MaxOps == 3
MaxCut == 9

InitCursor ==
    /\ ch = [c \in Channels |-> EmptyChannel]
    /\ sent = <<>>
    /\ shmem = [a \in {} |-> 0]
    /\ active = FALSE
    /\ main_display = FALSE
    /\ invoked = <<>>
    /\ pushed = [c \in AllCallbacks |-> 0]
    /\ deferred = <<>>
    /\ dev = DevInit
    /\ \E n \in 1..2, kind \in Kinds, cut \in 0..MaxCut :
         LET in == [ n |-> n, kind |-> kind ]
             len == Len(BlobOf(in)) - cut
         IN  ev = ParserEvent("none", in,
                              [ blob |-> SubSeq(BlobOf(in), 1, len),
                                len |-> len, pos |-> 0 ], 0, 0)
    /\ ub = {}
    /\ nMsgs = 0

CursorStep(op, ctx, ret) ==
    /\ nMsgs < MaxOps
    /\ nMsgs' = nMsgs + 1
    /\ ev' = ParserEvent(op, ev.in, ctx, ret, 0)
    /\ UNCHANGED << ch, sent, shmem, active, main_display, invoked, pushed,
                    deferred, ub, dev >>

CursorParse ==
    /\ ev.op = "none"
    /\ LET r == parse(ev.ctx.blob, ev.ctx.len)
       IN  CursorStep("parse", r.ctx, r.ret)

Parsing == ev.op # "none" /\ ev.ctx.pos <= ev.ctx.len

CursorTag ==
    /\ Parsing
    /\ LET r == parse_tag(ev.ctx)
       IN  CursorStep("parse_tag", r.ctx, IF r.err THEN -EINVAL ELSE 0)

CursorSkip ==
    /\ Parsing
    /\ LET r == skip(ev.ctx) IN CursorStep("skip", r.ctx, r.ret)

CursorString ==
    /\ Parsing
    /\ LET r == parse_string(ev.ctx)
       IN  CursorStep("parse_string", r.ctx, IF r.err THEN -EINVAL ELSE 0)

CursorInt ==
    /\ Parsing
    /\ LET r == parse_int(ev.ctx) IN CursorStep("parse_int", r.ctx, r.ret)

CursorBool ==
    /\ Parsing
    /\ LET r == parse_bool(ev.ctx) IN CursorStep("parse_bool", r.ctx, r.ret)

NextCursor ==
    \/ CursorParse \/ CursorTag \/ CursorSkip \/ CursorString \/ CursorInt
    \/ CursorBool

SpecCursor == InitCursor /\ [][NextCursor]_vars

(* C26: an operation of the parser on a cursor inside the buffer leaves    *)
(* the cursor at most at the length of the buffer or returns an error.     *)
C26_CursorInBuffer ==
    ev.kind = "parser" /\ ev.op # "none" =>
        ev.ctx.pos <= ev.ctx.len \/ ev.ret # 0

----------------------------------------------------------------------------
(* Transfers of documents in one chunk.  A document is described by what   *)
(* it holds: the kinds of the entries of TimingElements, or the kinds of   *)
(* the color modes of its one entry, or the place (where, at) of a pair    *)
(* with a key that the parser does not know (value is the kind of its      *)
(* value, "none" without the pair).                                        *)

MaxEntries == 2
MaxColors == 2
MaxScores == 2

Document(family, entries, colors, where, at, value) ==
    [ family |-> family, entries |-> entries, colors |-> colors,
      where |-> where, at |-> at, value |-> value ]

SeqsUpTo(S, n) == UNION { [ 1..k -> S ] : k \in 0..n }

InsertAt(seq, at, x) == SubSeq(seq, 1, at) \o << x >> \o SubSeq(seq, at + 1, Len(seq))

\* the pairs with the unknown pair of the document d, if it goes here
WithUnknown(d, where, pairs) ==
    IF d.where = where /\ d.value # "none"
    THEN InsertAt(pairs, d.at, << <<90, 122>>, Value(d.value, 2) >>)
    ELSE pairs

(* The color modes: two with the score 5, one with 7, a virtual one with   *)
(* 9, one with a negative score, one with a negative ID, and one that has  *)
(* only IsVirtual = false                                                  *)
ColorKinds == { "a5", "b5", "c7", "v9", "n4", "i9", "partial" }

ColorOf(kind) ==
    CASE kind = "a5" -> [ id |-> 1, score |-> 5, is_virtual |-> FALSE ]
      [] kind = "b5" -> [ id |-> 2, score |-> 5, is_virtual |-> FALSE ]
      [] kind = "c7" -> [ id |-> 3, score |-> 7, is_virtual |-> FALSE ]
      [] kind = "v9" -> [ id |-> 4, score |-> 9, is_virtual |-> TRUE ]
      [] kind = "n4" -> [ id |-> 5, score |-> -4, is_virtual |-> FALSE ]
      [] kind = "i9" -> [ id |-> -6, score |-> 9, is_virtual |-> FALSE ]
      [] kind = "partial" -> [ id |-> -1, score |-> -1, is_virtual |-> FALSE ]

EncColorOf(d, kind) ==
    LET c == ColorOf(kind)
    IN  EncDict(WithUnknown(d, "color",
            IF kind = "partial" THEN << <<K_IsVirtual, EncBool(FALSE)>> >>
            ELSE ColorModePairs(c.id, c.score, c.is_virtual)))

(* The entries of TimingElements: a usable one, two virtual ones (the flag *)
(* last and first), one whose color modes are all virtual, the 120 Hz mode *)
(* of the 14 inch panel, another mode at 120 Hz, and two malformed ones: a *)
(* string as the ID in front, a bool as the Score at the end               *)
EntryKinds ==
    { "ok", "virtual", "virtual_first", "nocolor", "deny120", "ok120",
      "bad_first", "bad_last" }

Malformed == { "bad_first", "bad_last" }
Rejected == { "virtual", "virtual_first", "nocolor", "deny120" }

Hz120 == 120 * U16

(* The Score of an entry: its place from the end in the other families,    *)
(* and in the family of the scores 5, 7, 0, -1 or no Score pair at all     *)
ScoreKinds == { "s5", "s7", "s0", "sm1", "none" }

ScoreOf(d, i) ==
    IF d.family # "scores" THEN 10 - i
    ELSE CASE d.entries[i] = "s5" -> 5
           [] d.entries[i] = "s7" -> 7
           [] d.entries[i] = "s0" -> 0
           [] OTHER -> -1

\* the entry i of the document d
EncEntry(d, i) ==
    LET kind == d.entries[i]
        colors == IF d.family = "colors" THEN d.colors
                  ELSE IF kind = "nocolor" THEN << "v9" >> ELSE << "a5" >>
        horiz == IF kind = "deny120"
                 THEN DimensionPairs(3024, 3100, 16, 96, 0)
                 ELSE DimensionPairs(640, 800, 16, 96, 0)
        vert == IF kind = "deny120"
                THEN DimensionPairs(1964, 2000, 10, 2, Hz120)
                ELSE DimensionPairs(480, 525, 10, 2,
                                    IF kind = "ok120" THEN Hz120 ELSE Hz60)
        pairs == ModePairs(EncDict(horiz),
                           EncDict(WithUnknown(d, "dimension", vert)),
                           [ k \in 1..Len(colors) |-> EncColorOf(d, colors[k]) ],
                           i, ScoreOf(d, i),
                           kind \in {"virtual", "virtual_first"})
    IN  EncDict(
          CASE kind = "virtual_first" -> << pairs[6] >> \o SubSeq(pairs, 1, 5)
            [] kind = "bad_first" ->
                 << <<K_ID, EncString(K_ID)>> >> \o SubSeq(pairs, 1, 3)
                     \o SubSeq(pairs, 5, 6)
            [] kind = "bad_last" ->
                 SubSeq(pairs, 1, 4) \o << pairs[6], <<K_Score, EncBool(TRUE)>> >>
            [] d.family = "scores" /\ kind = "none" ->
                 SubSeq(pairs, 1, 4) \o << pairs[6] >>
            [] OTHER -> WithUnknown(d, "mode", pairs))

EncDocument(d) ==
    EncBlob(IF d.family = "display"
            THEN EncDict(WithUnknown(d, "display", DisplayAttributesPairs(30, 20)))
            ELSE EncArray([ i \in 1..Len(d.entries) |-> EncEntry(d, i) ]))

KeyOf(d) == IF d.family = "display" THEN K_DisplayAttributes ELSE K_TimingElements

\* how many pairs the dictionary has that the unknown pair goes into
PairsAt ==
    [ mode |-> 6, dimension |-> 5, color |-> 4, display |-> 2 ]

\* the documents of entries, and those with a pair that has an unknown key
Documents ==
    { Document("entries", e, << >>, "none", 0, "none") :
        e \in SeqsUpTo(EntryKinds, MaxEntries) }
    \cup { Document(IF where = "display" THEN "display" ELSE "unknown",
                    << "ok" >>, << >>, where, at, value) :
             where \in DOMAIN PairsAt, at \in 0..6, value \in Kinds \cup {"none"} }

\* the documents of one entry with its color modes
ColorDocuments ==
    { Document("colors", << "ok" >>, c, "none", 0, "none") :
        c \in SeqsUpTo(ColorKinds, MaxColors) }

\* the documents of entries with their scores
ScoreDocuments ==
    { Document("scores", e, << >>, "none", 0, "none") :
        e \in SeqsUpTo(ScoreKinds, MaxScores) }

\* what an unassigned local reads as
Junk == { -1, 7 }

MaxModes == 3

\* the document d after the construction
Transfer(d) ==
    /\ d.where \in DOMAIN PairsAt =>
          d.at <= (IF d.value = "none" THEN 0 ELSE PairsAt[d.where])
    /\ ev.kind = "none"
    /\ Recv(MaxModes, "cb",
            PropMsg(TagD122, 4,
                    [ length |-> U32(0, Len(EncDocument(d))),
                      allocated |-> TRUE, src |-> d ]))

ModesStart == \E d \in Documents : Transfer(d)

ColorsStart == \E d \in ColorDocuments : Transfer(d)

ScoresStart == \E d \in ScoreDocuments : Transfer(d)

ModesChunk ==
    /\ ev.kind = "cb" /\ ev.m.hdr.tag = TagD122 /\ dev.chunks.alloc
    /\ \E bytes \in { EncDocument(ev.m.hdr.req.src) } :
         Recv(MaxModes, "cb",
              PropMsg(TagD123, 4104,
                      [ offset |-> U32(0, 0), length |-> U32(0, Len(bytes)),
                        data |-> bytes, src |-> ev.m.hdr.req.src ]))

ModesEnd ==
    /\ ev.kind = "cb" /\ ev.m.hdr.tag = TagD123 /\ dev.chunks.alloc
    /\ \E j \in Junk :
         Recv(MaxModes, "cb",
              PropMsg(TagD124, 64,
                      [ key |-> KeyOf(ev.m.hdr.req.src), allocated |-> TRUE,
                        j |-> j, src |-> ev.m.hdr.req.src ]))

NextModes == ModesStart \/ ModesChunk \/ ModesEnd

SpecModes == Init /\ [][NextModes]_vars

NextColors == ColorsStart \/ ModesChunk \/ ModesEnd

SpecColors == Init /\ [][NextColors]_vars

NextScores == ScoresStart \/ ModesChunk \/ ModesEnd

SpecScores == Init /\ [][NextScores]_vars

\* the timing mode ids of the modes of the device
ModeIds == [ i \in 1..Len(dev.modes) |-> dev.modes[i].timing_mode_id ]

\* the members of seq that are in S, in their order
RECURSIVE Select(_, _)
Select(seq, S) ==
    IF seq = << >> THEN << >>
    ELSE (IF Head(seq) \in S THEN << Head(seq) >> ELSE << >>)
             \o Select(Tail(seq), S)

(* The color mode that the rule of the claim selects: the first of those   *)
(* with the greatest score among the ones that are not virtual and have a  *)
(* score and an ID that are not negative (and so have them); -1 if none    *)
FirstBest(colors) ==
    LET c == [ i \in 1..Len(colors) |-> ColorOf(colors[i]) ]
        valid == { i \in 1..Len(colors) :
                     /\ colors[i] # "partial" /\ ~c[i].is_virtual
                     /\ c[i].score >= 0 /\ c[i].id >= 0 }
        best == CHOOSE i \in valid :
                    \A k \in valid : \/ c[k].score < c[i].score
                                      \/ (c[k].score = c[i].score /\ i <= k)
    IN  IF valid = {} THEN -1 ELSE c[best].id

(* C30: the color mode of the mode is the first of those with the greatest *)
(* score among the entries that are not virtual and have a score and an ID *)
(* that are not negative, whatever the order of the entries; with no such  *)
(* entry parse_color_modes gives -1 and the mode is refused.               *)
C30_FirstBestColor ==
    Ended /\ ev.m.hdr.req.src.family = "colors" =>
        LET best == FirstBest(ev.m.hdr.req.src.colors)
        IN  /\ PropReply = 1
            /\ best = -1 => dev.nr_modes = 0
            /\ best # -1 => /\ dev.nr_modes = 1
                            /\ dev.modes[1].color_mode_id = best

\* the places of the entries that are neither refused nor malformed
Usable(entries) ==
    Select([ i \in 1..Len(entries) |-> i ],
           { i \in 1..Len(entries) : entries[i] \notin Rejected \cup Malformed })

HasMalformed(entries) == \E i \in 1..Len(entries) : entries[i] \in Malformed

(* C28: a malformed entry of TimingElements yields no mode, and every      *)
(* other entry that is well formed and not refused, before or after it,    *)
(* yields its mode.                                                        *)
C28_MalformedDropsOne ==
    LET d == ev.m.hdr.req.src
    IN  Ended /\ d.family = "entries" /\ HasMalformed(d.entries) =>
            /\ PropReply = 1
            /\ ModeIds = Usable(d.entries)
            /\ dev.nr_modes = Len(dev.modes)

(* C29: the modes of the device are those of the entries that are not     *)
(* virtual, have a valid color mode and are not the 120 Hz mode of the     *)
(* panel, in the order of the array, and nr_modes is their number.         *)
C29_ExactlyAccepted ==
    LET d == ev.m.hdr.req.src
    IN  Ended /\ d.family = "entries" /\ ~HasMalformed(d.entries) =>
            /\ PropReply = 1
            /\ ModeIds = Usable(d.entries)
            /\ dev.nr_modes = Len(dev.modes)
            /\ \A i \in 1..Len(dev.modes) :
                 /\ dev.modes[i].color_mode_id = 1
                 /\ dev.modes[i].hdisplay = 640 /\ dev.modes[i].vdisplay = 480
                 /\ "DRIVER" \in dev.modes[i].type
            /\ ub = {}

(* One virtual and one usable entry gave the mode of the usable one *)
C29_Witness ==
    /\ Ended /\ ev.m.hdr.req.src.entries = << "virtual", "ok" >>
    /\ dev.nr_modes = 1 /\ ModeIds = << 2 >>
    /\ dev.modes[1].clock = 25200

(* C27: a pair with a key that the parser does not know, whatever its      *)
(* value and its place in the dictionary of a mode, of a dimension, of a   *)
(* color mode or of DisplayAttributes, changes nothing: the reply, the     *)
(* modes with their color mode and the preferred one, and the width and    *)
(* the height are those that the document without the pair gives.          *)
C27_UnknownKeysIgnored ==
    LET d == ev.m.hdr.req.src
        base == EncDocument([ d EXCEPT !.value = "none", !.at = 0 ])
        plain == dcpep_process_chunks(
                     [ ub |-> {} ] @@
                     [ ev.pre.dev EXCEPT
                         !.chunks = [ length |-> U32(0, Len(base)),
                                      alloc |-> TRUE, data |-> base ] ],
                     ev.m.hdr.req)
    IN  Ended /\ d.value # "none" =>
            /\ PropReply = 1 /\ plain.ret
            /\ dev.modes = plain.s.modes
            /\ dev.nr_modes = plain.s.nr_modes
            /\ dev.width_mm = plain.s.width_mm
            /\ dev.height_mm = plain.s.height_mm
            /\ d.family = "display" => dev.width_mm = 300 /\ dev.height_mm = 200
            /\ d.family = "unknown" =>
                 /\ dev.nr_modes = 1 /\ dev.modes[1].color_mode_id = 1
                 /\ dev.modes[1].type = {"DRIVER", "PREFERRED"}
            /\ ub = {}

(* Nested containers under an unknown key in the middle of the vertical    *)
(* dimension                                                               *)
C27_Witness ==
    LET d == ev.m.hdr.req.src
    IN  /\ Ended /\ PropReply = 1
        /\ d.where = "dimension" /\ d.at = 2 /\ d.value = "nested"
        /\ dev.nr_modes = 1 /\ dev.modes[1].vsync_end = 492

\* the places of the modes of the device that carry the preferred flag
Preferred == { i \in 1..Len(dev.modes) : "PREFERRED" \in dev.modes[i].type }

(* C31: when enumerate_modes returns a mode, one mode and no other carries *)
(* the preferred flag, and where every returned mode has a Score it is the *)
(* first of those with the greatest Score.                                 *)
C31_OnePreferred ==
    LET d == ev.m.hdr.req.src
        first == CHOOSE i \in 1..Len(d.entries) :
                     \A k \in 1..Len(d.entries) :
                        \/ ScoreOf(d, k) < ScoreOf(d, i)
                        \/ (ScoreOf(d, k) = ScoreOf(d, i) /\ i <= k)
    IN  Ended /\ d.family = "scores" /\ dev.nr_modes >= 1 =>
            /\ dev.nr_modes = Len(d.entries)
            /\ Cardinality(Preferred) = 1
            /\ (\A i \in 1..Len(d.entries) : d.entries[i] # "none")
                  => Preferred = { first }

----------------------------------------------------------------------------
(* calculate_clock on its own.  The totals are 25 * 2^k, 3200 and 1800, so *)
(* that their product passes 2^32, and the rates are 16.16 fixed point:    *)
(* 24, 59.94, 60, 120 and 240 Hz                                           *)
MaxShift == 16

Totals == { 25 * (2 ^ k) : k \in 0..MaxShift } \cup { 3200, 1800 }

Rates == { 24 * U16, 3928228, 60 * U16, 120 * U16, 240 * U16 }

ClockEvent(op, horiz, vert, clock) ==
    [ kind |-> "clock", op |-> op, horiz |-> horiz, vert |-> vert,
      clock |-> clock, m |-> NoMsg ]

InitClock ==
    /\ ch = [c \in Channels |-> EmptyChannel]
    /\ sent = <<>>
    /\ shmem = [a \in {} |-> 0]
    /\ active = FALSE
    /\ main_display = FALSE
    /\ invoked = <<>>
    /\ pushed = [c \in AllCallbacks |-> 0]
    /\ deferred = <<>>
    /\ dev = DevInit
    /\ \E h \in Totals, v \in Totals, rate \in Rates :
         ev = ClockEvent("none", [ total |-> h ],
                         [ total |-> v, precise_sync_rate |-> rate ], << >>)
    /\ ub = {}
    /\ nMsgs = 0

ClockCalculate ==
    /\ ev.op = "none"
    /\ nMsgs' = nMsgs + 1
    /\ ev' = ClockEvent("calculate_clock", ev.horiz, ev.vert,
                        calculate_clock(ev.horiz, ev.vert))
    /\ UNCHANGED << ch, sent, shmem, active, main_display, invoked, pushed,
                    deferred, ub, dev >>

NextClock == ClockCalculate

SpecClock == InitClock /\ [][NextClock]_vars

(* The clock in kHz with nothing lost: the product of the two totals and   *)
(* the rate in 12 bytes, shifted by 16 bits, to the closest thousand       *)
WideClock(horiz, vert) ==
    Over(Plus(SubSeq(Times(Times(Bytes(horiz.total, 4), Bytes(vert.total, 4), 8),
                           Bytes(vert.precise_sync_rate, 4), 12), 3, 12)
                  \o << 0, 0 >>, 500), 1000)

\* b with zeroes up to n bytes
Widen(b, n) == b \o [ i \in 1..(n - Len(b)) |-> 0 ]

Calculated == ev.kind = "clock" /\ ev.op = "calculate_clock"

\* the product of the two totals fits a u32
PixelsFit ==
    SubSeq(Times(Bytes(ev.horiz.total, 4), Bytes(ev.vert.total, 4), 8), 5, 8)
        = << 0, 0, 0, 0 >>

---------------------------------------------------------------------------
(* SpecModeset: the modeset of dcp_flush on a device that has received its *)
(* modes.  TimingElements arrives first (start, chunk, end), then come the *)
(* hotplug callback, dcp_flush with the mode the atomic state asks for,    *)
(* the acks of the firmware and the end of the wait.                       *)

MaxModeset == 6

ModesetDocuments ==
    { Document("entries", e, << >>, "none", 0, "none") :
        e \in { << "ok", "ok120" >>, << "ok", "ok" >>, << "virtual", "ok120" >> } }

(* drm_mode_match with DRM_MODE_MATCH_TIMINGS and DRM_MODE_MATCH_CLOCK      *)
(* compares the clock and the horizontal and vertical timings              *)
TimingMembers ==
    { "clock", "hdisplay", "hsync_start", "hsync_end", "htotal",
      "vdisplay", "vsync_start", "vsync_end", "vtotal" }

drm_mode_match(mode1, mode2) == \A f \in TimingMembers : mode1[f] = mode2[f]

(* lookup_mode: the place in dcp->modes of the first mode that matches, 0  *)
(* for NULL                                                                *)
RECURSIVE lookup_mode_from(_, _, _)
lookup_mode_from(s, mode, i) ==
    IF i > s.nr_modes THEN 0
    ELSE IF drm_mode_match(mode, s.modes[i]) THEN i
    ELSE lookup_mode_from(s, mode, i + 1)

RECURSIVE lookup_mode_back(_, _, _)
lookup_mode_back(s, mode, i) ==
    IF i < 1 THEN 0
    ELSE IF drm_mode_match(mode, s.modes[i]) THEN i
    ELSE lookup_mode_back(s, mode, i - 1)

lookup_mode_last(s, mode) == lookup_mode_back(s, mode, s.nr_modes)

lookup_mode(s, mode) == lookup_mode_from(s, mode, 1)

(* The modes the atomic state may ask for: a copy of each mode of the      *)
(* device, and one that the device does not have                           *)
NoTiming == [ f \in TimingMembers |-> 0 ]

Wanted ==
    { [ f \in TimingMembers |-> dev.modes[i][f] ] : i \in 1..Len(dev.modes) }
    \cup { NoTiming }

\* what dcp_flush copies into dcp->mode from the mode at place i
ModeRequest(s, i) ==
    IF i = 0 THEN NoMode
    ELSE [ color_mode_id |-> s.modes[i].color_mode_id,
           timing_mode_id |-> s.modes[i].timing_mode_id ]

ModesetArg(want, modeset, cookie, i) ==
    [ FlushArg(modeset, i # 0, cookie, TRUE, FALSE, 0) EXCEPT
        !.found = ModeRequest(dev, i) ] @@ [ want |-> want ]

ModesetTransfer == \E d \in ModesetDocuments : Transfer(d)

ModesetCall ==
    /\ dev.flush_pc = "idle"
    /\ \E want \in Wanted, modeset, cookie \in BOOLEAN :
         \E a \in { ModesetArg(want, modeset, cookie, lookup_mode(dev, want)) } :
            Input(MaxModeset,
                  LAMBDA o : dcp_flush([ State EXCEPT !.flush_at = dev.vblanks ],
                                       a, o),
                  FlushEvent("dcp_flush", a))

ModesetHotplug == FlushHotplugN(MaxModeset)

NextModeset ==
    ModesetTransfer \/ ModesChunk \/ ModesEnd \/ ModesetHotplug \/ ModesetCall
    \/ FlushWait \/ FlushAck

SpecModeset == Init /\ [][NextModeset]_vars

\* the methods of the calls of msgs
MethodsOf(msgs) == { msgs[i].method : i \in 1..Len(msgs) }

\* the step was a dcp_flush that found the channel idle and needed a modeset
ModesetFlush ==
    /\ ev.kind = "dcp_flush"
    /\ ~dcp_channel_busy(ev.pre.ch["ch_cmd"])
    /\ ev.a.modeset \/ ~ev.pre.dev.valid_mode

\* the places of the modes that had the timings asked for
Matching ==
    { i \in 1..Len(ev.pre.dev.modes) :
        \A f \in TimingMembers : ev.pre.dev.modes[i][f] = ev.a.want[f] }

\* before the step the continuation of the call of the waiting flush had run
ModesetAcked ==
    \E k \in 1..ev.pre.ninvoked :
        invoked[k] = << "complete_set_digital_out_mode", ev.pre.dev.flush_cookie >>

(* C33: a dcp_flush that needs a modeset sends set_digital_out_mode with   *)
(* the color_mode_id and timing_mode_id of the first mode that matches and *)
(* neither sends swap_start nor sets valid_mode before it waits; while it  *)
(* waits nothing sends swap_start or sets valid_mode; when the wait ends   *)
(* after the ack of the call was handled valid_mode is set and swap_start  *)
(* is sent, and when it ends in the timeout valid_mode stays as it is and  *)
(* nothing is sent.                                                        *)
C33_ModesetBeforeSwap ==
    /\ ModesetFlush =>
          /\ dev.valid_mode = ev.pre.dev.valid_mode
          /\ "dcpep_swap_start" \notin MethodsOf(NewSent)
          /\ dev.flush_pc = "wait" <=> (Matching # {} /\ ev.a.cookie)
          /\ dev.flush_pc = "wait" =>
                /\ MethodsOf(NewSent) = { "dcpep_set_digital_out_mode" }
                /\ Len(NewSent) = 1
                /\ \E i \in Matching :
                      /\ \A k \in Matching : i <= k
                      /\ shmem[NewSent[1].offset].data =
                            [ color_mode_id |-> ev.pre.dev.modes[i].color_mode_id,
                              timing_mode_id |-> ev.pre.dev.modes[i].timing_mode_id ]
          /\ dev.flush_pc # "wait" => NewSent = << >>
    /\ ev.pre.dev.flush_pc = "wait" /\ ev.kind # "dcp_flush_wait" =>
          /\ "dcpep_swap_start" \notin MethodsOf(NewSent)
          /\ dev.valid_mode => ev.pre.dev.valid_mode
    /\ ev.kind = "dcp_flush_wait" /\ ModesetAcked =>
          /\ dev.valid_mode
          /\ dev.connected => MethodsOf(NewSent) = { "dcpep_swap_start" }
          /\ ~dev.connected => NewSent = << >>
    /\ ev.kind = "dcp_flush_wait" /\ ~ModesetAcked =>
          /\ dev.valid_mode = ev.pre.dev.valid_mode
          /\ NewSent = << >>

C33_Witness ==
    /\ ev.kind = "dcp_flush_wait" /\ ModesetAcked
    /\ dev.valid_mode /\ MethodsOf(NewSent) = { "dcpep_swap_start" }
    /\ dev.mode.timing_mode_id = 2 /\ Len(dev.modes) = 2

---------------------------------------------------------------------------
(* SpecPacket: where the packets of a channel lie.  The firmware sends     *)
(* INITIALIZED, callbacks at an offset of its choice (one that is answered *)
(* at once and one whose handler makes a call) and acks of calls that are  *)
(* outstanding.                                                            *)

MaxPacket == 3

(* dcp_tx_offset, dcp_channel_offset: the zones of the shared buffer start *)
(* 0x8000 bytes apart, but for the asynchronous callbacks, whose zone ends *)
(* where that of the callbacks starts                                      *)
ZoneSize == 32768

Zone(c) ==
    IF c = "ch_async"
    THEN dcp_channel_offset(DCP_CONTEXT_CB) - dcp_channel_offset(DCP_CONTEXT_ASYNC)
    ELSE ZoneSize

(* The offsets of a callback: the start of the zone, the second packet,    *)
(* the last packet of the zone and the last packet a u16 can tell          *)
PacketOffsets == { 0, 64, ZoneSize - 64, U16 - 64 }

PacketInit == Recv(MaxPacket, "init", [ NoMsg EXCEPT !.type = "INITIALIZED" ])

PacketCallback ==
    \E c \in {DCP_CONTEXT_CB, DCP_CONTEXT_ASYNC}, t \in {TagD000, TagD116},
       offset \in PacketOffsets :
        Recv(MaxPacket, "cb", CbMsg(c, t, offset))

PacketAck ==
    \E c \in AckContexts :
        /\ dcp_channel_busy(ch[dcp_get_channel(c)])
        /\ Recv(MaxPacket, "ack", AckMsg(c, 0))

NextPacket == PacketInit \/ PacketCallback \/ PacketAck

SpecPacket == Init /\ [][NextPacket]_vars

\* the slots of the packets of channel c that are outstanding
Outstanding(c) == { k \in Slots : k < ch[c].depth }

(* C34: the packet the host pushed at depth k of a channel starts at the   *)
(* recorded end of the packet at depth k - 1, at 0 for k = 0; the recorded *)
(* end of every packet is its start plus its length rounded up to 64,      *)
(* with no wrap at 16 bits, and lies within the zone; the packets that are *)
(* outstanding on one channel and lie in the same zone (those the host     *)
(* pushed, those the firmware sent) follow each other without overlap.     *)
C34_PacketsBackToBack ==
    \A c \in Channels : \A k \in Outstanding(c) :
        /\ dev.packets[c][k].host =>
              dev.packets[c][k].start = IF k = 0 THEN 0 ELSE ch[c].end[k - 1]
        /\ ch[c].end[k] = dev.packets[c][k].start
                            + ALIGN(dev.packets[c][k].length, DCP_PACKET_ALIGNMENT)
        /\ ch[c].end[k] <= Zone(c)
        /\ \A j \in Outstanding(c) :
              j < k /\ dev.packets[c][j].host = dev.packets[c][k].host
                  => ch[c].end[j] <= dev.packets[c][k].start

---------------------------------------------------------------------------
(* SpecWalker: the walkers of the parser on a document whose value is of   *)
(* any kind: parse, then one walker on the value.                          *)

MaxMembers == 2

Walkers ==
    { "parse_dimension", "parse_color_modes", "parse_mode",
      "parse_display_attributes" }

\* the type of container the walker iterates over
Expected(walker) ==
    IF walker = "parse_color_modes" THEN DCP_TYPE_ARRAY ELSE DCP_TYPE_DICTIONARY

InitWalker ==
    /\ ch = [c \in Channels |-> EmptyChannel]
    /\ sent = <<>>
    /\ shmem = [a \in {} |-> 0]
    /\ active = FALSE
    /\ main_display = FALSE
    /\ invoked = <<>>
    /\ pushed = [c \in AllCallbacks |-> 0]
    /\ deferred = <<>>
    /\ dev = DevInit
    /\ \E n \in 0..MaxMembers, kind \in Kinds, j \in Junk :
         LET blob == EncBlob(Value(kind, n))
         IN  ev = ParserEvent("none", [ n |-> n, kind |-> kind, j |-> j ],
                              [ blob |-> blob, len |-> Len(blob), pos |-> 0 ],
                              0, 0)
    /\ ub = {}
    /\ nMsgs = 0

WalkerStep(op, ctx, ret) ==
    /\ ev' = ParserEvent(op, ev.in, ctx, ret, 0)
    /\ UNCHANGED << ch, sent, shmem, active, main_display, invoked, pushed,
                    deferred, ub, dev, nMsgs >>

WalkerParse ==
    /\ ev.op = "none"
    /\ LET r == parse(ev.ctx.blob, ev.ctx.len)
       IN  WalkerStep("parse", r.ctx, r.ret)

WalkDimension ==
    /\ ev.op = "parse" /\ ev.ret = 0
    /\ LET r == parse_dimension(ev.ctx, Uninitialized(DimensionMembers, ev.in.j))
       IN  WalkerStep("parse_dimension", r.ctx, r.ret)

WalkColorModes ==
    /\ ev.op = "parse" /\ ev.ret = 0
    /\ LET r == parse_color_modes(ev.ctx, ev.in.j)
       IN  WalkerStep("parse_color_modes", r.ctx, r.ret)

WalkMode ==
    /\ ev.op = "parse" /\ ev.ret = 0
    /\ LET r == parse_mode(ev.ctx, ev.in.j, FALSE, ev.in.j, 0, 0, 0)
       IN  WalkerStep("parse_mode", r.ctx, r.ret)

WalkDisplayAttributes ==
    /\ ev.op = "parse" /\ ev.ret = 0
    /\ LET r == parse_display_attributes(ev.ctx, 0, 0)
       IN  WalkerStep("parse_display_attributes", r.ctx, r.ret)

NextWalker ==
    \/ WalkerParse \/ WalkDimension \/ WalkColorModes \/ WalkMode
    \/ WalkDisplayAttributes

SpecWalker == InitWalker /\ [][NextWalker]_vars

\* the type in the tag of the value of the document
TypeOfValue == TagAt([ blob |-> ev.ctx.blob ], 4).type

(* C35: a walker applied to a value whose tag is not of the type of        *)
(* container it iterates over returns an error.                            *)
C35_WrongTypeIsError ==
    ev.kind = "parser" /\ ev.op \in Walkers /\ TypeOfValue # Expected(ev.op)
        => ev.ret # 0

---------------------------------------------------------------------------
(* SpecMap: the firmware asks for mappings of physical ranges (D452) and   *)
(* for releases (D456).  The device advertises two adjacent ranges of      *)
(* display registers of 0x4000 bytes each above 8 GiB, as the register     *)
(* blocks of the display lie in the physical address space.                *)

MaxMap == 2

\* 0x2_0000_0000
RegisterBase == <<0, 0, 0, 0, 2, 0, 0, 0>>

\* four pages
RegisterSize == 4 * 4096

DispRegisters ==
    << [ start |-> RegisterBase,
         end |-> u64_add(RegisterBase, U64(RegisterSize - 1)) ],
       [ start |-> u64_add(RegisterBase, U64(RegisterSize)),
         end |-> u64_add(RegisterBase, U64((2 * RegisterSize) - 1)) ] >>

(* The addresses of the requests: below the first range, its first page,   *)
(* an address inside a page, its last page, the first byte of the second   *)
(* range, the first byte behind both, and 0                                *)
MapAddresses ==
    { u64_add(RegisterBase, U64(d)) :
        d \in { -4096, 0, 256, RegisterSize - 4096, RegisterSize,
                2 * RegisterSize } }
    \cup { U64(0) }

(* The sizes of the requests: none, one byte, a page, a page and a byte, a *)
(* range, both ranges, 2^31, 2^32 + 1, 2^32 - 4095 and 2^64 - 1             *)
MapSizes ==
    { U64(x) : x \in { 0, 1, 4096, 4097, RegisterSize, 2 * RegisterSize } }
    \cup { <<0, 0, 0, 128, 0, 0, 0, 0>>, <<1, 0, 0, 0, 1, 0, 0, 0>>,
           <<1, 240, 255, 255, 0, 0, 0, 0>>,
           <<255, 255, 255, 255, 255, 255, 255, 255>> }

InitMap ==
    /\ ch = [c \in Channels |-> EmptyChannel]
    /\ sent = <<>>
    /\ shmem = [a \in {} |-> 0]
    /\ active = FALSE
    /\ main_display = FALSE
    /\ invoked = <<>>
    /\ pushed = [c \in AllCallbacks |-> 0]
    /\ deferred = <<>>
    /\ dev = [ DevInit EXCEPT !.disp_registers = DispRegisters ]
    /\ ev = Event("none", NoMsg)
    /\ ub = {}
    /\ nMsgs = 0

MapPhysical ==
    \E paddr \in MapAddresses, size \in MapSizes :
        Recv(MaxMap, "cb",
             [ PropMsg(TagD452, 24,
                       [ paddr |-> paddr, size |-> size, dva |-> 131072 ])
               EXCEPT !.length = HeaderSize + 24 + 20, !.hdr.out_len = 20 ])

MapRelease ==
    \E id \in {0, 1} : Recv(MaxMap, "cb", PropMsg(TagD456, 4, id))

NextMap == MapPhysical \/ MapRelease

SpecMap == InitMap /\ [][NextMap]_vars

\* a number of 8 bytes in 12 bytes, where no sum of two u64 wraps
Wide(x) == x \o <<0, 0, 0, 0>>

\* the size rounded up to a page, in 12 bytes
WideAligned(size) ==
    [ Plus(Wide(size), 4095) EXCEPT ![1] = 0, ![2] = @ - (@ % 16) ]

\* paddr + aligned size, the first byte behind the range, in 12 bytes
WideEnd(paddr, size) ==
    Normalize([ k \in 1..12 |-> Wide(paddr)[k] + WideAligned(size)[k] ])

(* the range from paddr to paddr + size - 1, with the size rounded up to   *)
(* a page, lies in one range of display registers                          *)
InsideOneRange(paddr, size) ==
    \E i \in 1..Len(DispRegisters) :
        /\ u64_le(DispRegisters[i].start, paddr)
        /\ bytes_le(WideEnd(paddr, size), Plus(Wide(DispRegisters[i].end), 1), 12)

ZeroedMapReply == [ dva |-> 0, dva_size |-> 0, mem_desc_id |-> 0 ]

(* C36: D452 creates a mapping only when the range of the request, its     *)
(* size rounded up to a page, lies inside one range of display registers,  *)
(* whatever the 64-bit address and size; otherwise the reply is zeroed and *)
(* the bitmap and the table are as before.                                 *)
C36_MapsOnlyRegisters ==
    ev.kind = "cb" /\ ev.m.hdr.tag = TagD452
        /\ ~InsideOneRange(ev.m.hdr.req.paddr, ev.m.hdr.req.size) =>
            /\ PropReply = ZeroedMapReply
            /\ dev.memdesc_map = ev.pre.dev.memdesc_map
            /\ dev.memdesc = ev.pre.dev.memdesc

---------------------------------------------------------------------------
(* SpecReparse: the list of modes is parsed again while a DRM thread reads *)
(* it.  The firmware transfers TimingElements a first and a second time;   *)
(* the receive thread runs dcpep_cb_prop_end store by store: the count is  *)
(* zeroed, incremented for each mode, then the pointer is stored.          *)
(* dcp_get_modes runs on another thread at any time, with no lock taken    *)
(* by either.                                                              *)

MaxReparse == 7

(* One mode, two modes, a virtual and a usable entry, and a dictionary in  *)
(* the place of the array                                                  *)
ReparseDocuments ==
    { Document("entries", e, << >>, "none", 0, "none") :
        e \in { << "ok" >>, << "ok", "ok120" >>, << "virtual", "ok" >> } }
    \cup { Document("display", << "ok" >>, << >>, "none", 0, "none") }

ReparseStart ==
    /\ dev.parse.pc = "idle" /\ dev.parse.stage = "none"
    /\ \E d \in ReparseDocuments :
         Input(MaxReparse,
               LAMBDA o : [ iomfb_recv_msg(State,
                                PropMsg(TagD122, 4,
                                        [ length |-> U32(0, Len(EncDocument(d))),
                                          allocated |-> TRUE, src |-> d ]), o)
                            EXCEPT !.parse.stage = "started", !.parse.src = d ],
               Event("cb", NoMsg))

ReparseChunkOf(bytes) ==
    Input(MaxReparse,
          LAMBDA o : [ iomfb_recv_msg(State,
                           PropMsg(TagD123, 4104,
                                   [ offset |-> U32(0, 0),
                                     length |-> U32(0, Len(bytes)),
                                     data |-> bytes, src |-> dev.parse.src ]), o)
                       EXCEPT !.parse.stage = "chunked" ],
          Event("cb", NoMsg))

ReparseChunk ==
    /\ dev.parse.pc = "idle" /\ dev.parse.stage = "started"
    /\ ReparseChunkOf(EncDocument(dev.parse.src))

\* the request of the property-end of the transfer
ReparseReq(allocated, j) ==
    [ key |-> K_TimingElements, allocated |-> allocated, j |-> j,
      src |-> dev.parse.src ]

\* the way of enumerate_modes with the result e
ReparsePath(e) ==
    IF e.err = 0 THEN "ok" ELSE IF e.err = -ENOMEM THEN "nomem" ELSE "iter"

(* dcpep_cb_prop_end up to the first store: that of 0 to the count after   *)
(* kmalloc_array in enumerate_modes, or `dcp->modes = NULL` in             *)
(* dcpep_process_chunks when iterator_begin fails                          *)
ReparseEndOf(allocated, j, e) ==
    Input(MaxReparse,
          LAMBDA o : [ State EXCEPT
              !.nr_modes = IF ReparsePath(e) = "iter" THEN @ ELSE 0,
              !.modes = IF ReparsePath(e) = "iter" THEN << >> ELSE @,
              !.modes_len = IF ReparsePath(e) = "iter" THEN 0 ELSE @,
              !.parse = [ @ EXCEPT !.pc = "run", !.allocated = allocated,
                                   !.j = j, !.count = e.count,
                                   !.path = ReparsePath(e),
                                   !.old = [ modes |-> dev.modes,
                                             nr_modes |-> dev.nr_modes,
                                             modes_len |-> dev.modes_len ] ] ],
          Event("dcpep_cb_prop_end", NoMsg))

ReparseEnd ==
    /\ dev.parse.pc = "idle" /\ dev.parse.stage = "chunked"
    /\ \E allocated \in BOOLEAN, j \in Junk :
         ReparseEndOf(allocated, j,
                      enumerate_modes(parse(dev.chunks.data,
                                            dev.chunks.length.lo).ctx,
                                      dev.nr_modes, allocated, j, dev.width_mm,
                                      dev.height_mm, dev.notch_height))

\* the increment of the count for one more mode that parse_mode accepted
ReparseCount ==
    /\ dev.parse.pc = "run" /\ dev.parse.path = "ok"
    /\ dev.nr_modes < dev.parse.count
    /\ Reply(LAMBDA o : [ State EXCEPT !.nr_modes = @ + 1 ],
             Event("count", NoMsg))

(* The last stores, the pointer after the return of enumerate_modes, and   *)
(* the reply: the state is that of the whole handler                       *)
ReparseReturn ==
    /\ dev.parse.pc = "run"
    /\ dev.parse.path = "ok" => dev.nr_modes = dev.parse.count
    /\ Reply(LAMBDA o :
                iomfb_recv_msg([ State EXCEPT
                                   !.modes = dev.parse.old.modes,
                                   !.nr_modes = dev.parse.old.nr_modes,
                                   !.modes_len = dev.parse.old.modes_len,
                                   !.parse = NoParse ],
                               PropMsg(TagD124, 64,
                                       ReparseReq(dev.parse.allocated,
                                                  dev.parse.j)), o),
             Event("return", NoMsg))

(* dcp_get_modes: the loop reads dcp->modes[i] for every i below           *)
(* dcp->nr_modes; an index behind the entries of the array, or any index   *)
(* with the pointer NULL, is an access outside the array                   *)
dcp_get_modes(s) ==
    [ s EXCEPT !.ub = @ \cup Undefined("read", s.nr_modes > s.modes_len) ]

GetModes ==
    Input(MaxReparse, LAMBDA o : dcp_get_modes(State),
          Event("dcp_get_modes", NoMsg))

NextReparse ==
    \/ ReparseStart \/ ReparseChunk \/ ReparseEnd \/ ReparseCount
    \/ ReparseReturn \/ GetModes

SpecReparse == Init /\ [][NextReparse]_vars

(* C37: dcp_get_modes never observes a count of modes above the number of  *)
(* entries of the array it reads.                                          *)
C37_CountWithinArray ==
    ev.kind = "dcp_get_modes" => ev.pre.dev.nr_modes <= ev.pre.dev.modes_len

---------------------------------------------------------------------------
(* dev.unplugged is history: the number of wait cookies that were          *)
(* allocated when the last hotplug callback reported the disconnection,    *)
(* -1 before any.  The cookies with a greater index belong to calls        *)
(* issued after that callback.                                             *)
IssuedAfterUnplug == { c \in 1..Len(dev.wait) : c > dev.unplugged }

(* C38: on a device without a main display, after a hotplug callback that  *)
(* reported the disconnection valid_mode is false unless a                 *)
(* set_digital_out_mode that was issued after the callback has completed.  *)
C38_UnplugInvalidates ==
    ~main_display /\ dev.unplugged >= 0 /\ dev.valid_mode =>
        \E c \in IssuedAfterUnplug :
            /\ dev.wait[c].done
            /\ \E k \in 1..Len(invoked) :
                  invoked[k] = << "complete_set_digital_out_mode", c >>

---------------------------------------------------------------------------
(* SpecCookie: the life of the wait cookies.  The DRM thread calls         *)
(* dcp_flush with a modeset, dcp_poweron and dcp_poweroff, one after the   *)
(* other; the firmware acks the calls that are outstanding; a wait ends at *)
(* any time, before the ack (the timeout) or after it.                     *)

MaxCookie == 2

CookieIdle == HostIdle /\ dev.pon_pc = "idle"

CookieFlush ==
    /\ CookieIdle
    /\ \E a \in { FlushArg(TRUE, TRUE, TRUE, TRUE, FALSE, 0),
                  FlushArg(TRUE, TRUE, FALSE, TRUE, FALSE, 0) } :
         Input(MaxCookie,
               LAMBDA o : dcp_flush([ State EXCEPT !.flush_at = dev.vblanks ], a, o),
               FlushEvent("dcp_flush", a))

CookiePoweron ==
    /\ CookieIdle
    /\ \E allocated \in BOOLEAN :
         Input(MaxCookie, LAMBDA o : dcp_poweron(State, allocated, o),
               Event("dcp_poweron", NoMsg))

CookiePoweroff ==
    /\ CookieIdle
    /\ \E allocated \in BOOLEAN :
         Input(MaxCookie, LAMBDA o : dcp_poweroff(State, allocated, o),
               Event("dcp_poweroff", NoMsg))

PoweronWait ==
    /\ dev.pon_pc = "wait"
    /\ Reply(LAMBDA o : dcp_poweron_wait(State), Event("dcp_poweron_wait", NoMsg))

NextCookie ==
    \/ CookieFlush \/ CookiePoweron \/ CookiePoweroff
    \/ FlushWait \/ PoweronWait \/ PoweroffWait \/ CrashAck

SpecCookie == Init /\ [][NextCookie]_vars

\* the sides that dropped a reference to the cookie c
PutBy(c) == { dev.wait[c].put_by[i] : i \in 1..Len(dev.wait[c].put_by) }

(* C39: every cookie is freed at most once, and only after the caller and  *)
(* the continuation have each dropped their reference, once each; the      *)
(* memory of a cookie is never used after it was freed.                    *)
C39_CookieFreedOnce ==
    \A c \in 1..Len(dev.wait) :
        /\ dev.wait[c].released <= 1
        /\ dev.wait[c].stale = 0
        /\ Len(dev.wait[c].put_by) = Cardinality(PutBy(c))
        /\ dev.wait[c].released = 1 => PutBy(c) = { "caller", "receiver" }
        /\ PutBy(c) = { "caller", "receiver" } => dev.wait[c].released = 1

(* The wait of dcp_poweroff for the power state timed out, the caller      *)
(* dropped its reference, and the ack that came later freed the cookie;    *)
(* the cookie of the clear swap before it was freed by the caller          *)
C39_Witness ==
    /\ ev.kind = "ack"
    /\ \E c \in 1..Len(dev.wait) :
          /\ dev.wait[c].put_by = << "caller", "receiver" >>
          /\ dev.wait[c].released = 1 /\ dev.wait[c].done
          /\ << "complete_set_powerstate", c >> = invoked[Len(invoked)]
    /\ \E c \in 1..Len(dev.wait) :
          /\ dev.wait[c].put_by = << "receiver", "caller" >>
          /\ dev.wait[c].released = 1

---------------------------------------------------------------------------
(* SpecBusy: the calls in band and the busy test.  The host entries, the   *)
(* INITIALIZED message and callbacks whose handlers call the firmware,     *)
(* each handled in one step; the firmware answers the calls in band last   *)
(* in, first out, whatever the context they were sent on.  answered is the *)
(* set of the doorbells it has answered.  SpecBusyRace is the same         *)
(* firmware with the caller thread of SpecRace, which loads the depth of   *)
(* ch_cmd in one step and pushes in a later one.                           *)

MaxBusy == 3

\* the calls sent in band, on the command or on the callback context
BandCalls ==
    { i \in 1..Len(sent) :
        ~sent[i].ack /\ sent[i].context \in {DCP_CONTEXT_CMD, DCP_CONTEXT_CB} }

BandOutstanding == BandCalls \ dev.answered

Latest(calls) == CHOOSE i \in calls : \A j \in calls : j <= i

BusyCall ==
    /\ CookieIdle
    /\ \E c \in RaceOps :
         Input(MaxBusy, LAMBDA o : CallOp(State, c.op, c.a, o),
               FlushEvent(c.op, c.a))

BusyShutdown ==
    /\ CookieIdle
    /\ Input(MaxBusy, LAMBDA o : iomfb_shutdown(State, o),
             Event("iomfb_shutdown", NoMsg))

BusyInitialized ==
    Recv(MaxBusy, "init", [ NoMsg EXCEPT !.type = "INITIALIZED" ])

BusyCallback ==
    \E t \in {TagD116, TagD206} :
        Recv(MaxBusy, "cb", CbMsg(DCP_CONTEXT_CB, t, 0))

BusyAckOf(i) ==
    Reply(LAMBDA o : [ iomfb_recv_msg(State, AckMsg(sent[i].context, 0), o)
                       EXCEPT !.answered = @ \cup {i} ],
          Event("ack", AckMsg(sent[i].context, 0)))

BusyAck ==
    /\ BandOutstanding # {}
    /\ BusyAckOf(Latest(BandOutstanding))

BusyOobAck ==
    /\ dcp_channel_busy(ch["ch_oobcmd"])
    /\ Reply(LAMBDA o : iomfb_recv_msg(State, AckMsg(DCP_CONTEXT_OOBCMD, 0), o),
             Event("ack", AckMsg(DCP_CONTEXT_OOBCMD, 0)))

NextBusy ==
    \/ BusyCall \/ BusyShutdown \/ BusyInitialized \/ BusyCallback
    \/ BusyAck \/ BusyOobAck
    \/ FlushWait \/ PoweronWait \/ PoweroffWait

SpecBusy == Init /\ [][NextBusy]_vars

NextBusyRace ==
    \/ RaceCall \/ RaceCallRun \/ BusyAck \/ BusyOobAck
    \/ FlushWait \/ PoweroffWait

SpecBusyRace == Init /\ [][NextBusyRace]_vars

(* C40: while a call sent in band, on the command or on the callback       *)
(* context, has not been answered, dcp_channel_busy of ch_cmd is true; the *)
(* firmware answers last in, first out.                                    *)
C40_OutstandingMeansBusy ==
    ub = {} /\ BandOutstanding # {} => dcp_channel_busy(ch["ch_cmd"])

====
